---- MODULE Spec2Model ----
(***************************************************************************)
(* Streaming event pipeline of the chat front-end.                         *)
(*                                                                         *)
(*   SpecRelay  : the server relay of src/app/api/chat/route.ts            *)
(*                (streamAgentResponse / createStreamingResponse).         *)
(*   SpecClient : the client reducer and the text batcher of the chat      *)
(*                store (processStreamChunk, TextUpdateBatcher).           *)
(*   SpecDecode : the client SSE decoder (processStreamResponse).          *)
(*   SpecReducer: one sendMessage with every kind of frame, failures and   *)
(*                stopGeneration; SpecReducerFair adds that requested      *)
(*                animation frame callbacks run.                           *)
(*   SpecSession: overlapping sendMessage calls and stopGeneration.        *)
(*   SpecPost   : one request from POST /api/chat to the end of its        *)
(*                response.                                                *)
(*   SpecCancel : the relay while the client may cancel the response.      *)
(*   SpecStore  : one sendMessage and the session actions of the store     *)
(*                (initializeSession, clearMessages, toggleDebugMode).     *)
(*   SpecDebug  : two runs of the store that differ in debugMode only.     *)
(*   SpecResend : resends of a failed send (ChatMessage.handleResend).     *)
(*   SpecMapper : mapNetworkEventToClientEvent applied to one event.       *)
(*   SpecEvents : one sendMessage fed every frame type of the protocol.    *)
(*   SpecToolResult : one tool call and every shape of its result.         *)
(***************************************************************************)
EXTENDS Integers, Sequences, FiniteSets, TLC

\* The value of a JavaScript null / undefined event type.
NULL == "null"

(***************************************************************************)
(* Bounds of the model.                                                    *)
(***************************************************************************)
\* Upstream chunks delivered per upstream call.
MaxChunks == 2

(***************************************************************************)
(* Program constants.                                                      *)
(***************************************************************************)
\* parseInt(process.env.MAX_RESTREAM_RETRIES || '3', 10)
maxRetries == 3

VARIABLES
  \* ---- server relay (one request) ----
  useNetworkMapper,            \* parameter of streamAgentResponse
  rpc,                         \* where the relay's async function stands
  retryCount,
  finalPreviousLastEventType,
  previousLastEventType,
  lastEventType,
  relayMessages,               \* the messages array handed to agent.stream
  out,                         \* frames enqueued on the controller, in order
  closed,                      \* controller.close() was called
  thrown,                      \* an exception reached the catch of start()
  upstreamCalls,               \* agent.stream calls resolved so far
  openCalls,                   \* upstream streams open now
  attemptLog,                  \* chunks delivered by the current upstream call
  attemptEnds,                 \* per ended call: its last two typed events
  \* ---- client chat store (useChatStore) ----
  messages,
  isLoading,
  isMainStreaming,
  currentToolName,
  debugMode,
  \* ---- client text batcher (textUpdateBatcher) ----
  updates,                     \* Map<messageId, pending text>
  scheduled,
  raf,                         \* requestAnimationFrame callbacks not yet run
  \* ---- one sendMessage / processStreamResponse ----
  cpc,                         \* where the client's async function stands
  currentTextMessageId,        \* the active id
  nextId,                      \* ids generated so far (generateMessageId)
  received,                    \* per id: the delta text that arrived for it
  textEnded,                   \* ids a text-end event was applied to
  \* ---- processStreamResponse at the level of characters ----
  body,                        \* the response body as the server wrote it
  wire,                        \* the part of the body not yet read
  buffer,
  \* ---- the sendMessage calls of one session ----
  sends,                       \* per call: where it stands, its active id,
                               \* its signal, how its request ended
  abortController,             \* the store's abortController: a call, or 0
  applied,                     \* frames applied to the store so far
  \* ---- the POST handler of the relay ----
  env,                         \* process.env: NODE_ENV, MAIN_AGENT_NAME
  request,                     \* the inbound request
  response,                    \* the response POST returned, its status
  cancelled,                   \* the client cancelled the response stream
  \* ---- the session of the chat store ----
  threadId,
  resourceId,
  requests,                    \* the bodies of the chat requests sent so far
  resent,                      \* per error message id: resends it triggered
  twin,                        \* the same run of the store under the other
                               \* value of debugMode
  \* ---- one application of the event mapper ----
  event,                       \* the upstream event handed to the mapper
  mapped,                      \* what the mapper returned for it
  \* ---- one tool call ----
  toolResult                   \* payload.result of its tool-result frame

relayVars ==
  << useNetworkMapper, rpc, retryCount, finalPreviousLastEventType,
     previousLastEventType, lastEventType, relayMessages, out, closed, thrown,
     upstreamCalls, openCalls, attemptLog, attemptEnds >>

clientVars ==
  << messages, isLoading, isMainStreaming, currentToolName, debugMode,
     updates, scheduled, raf, cpc, currentTextMessageId, nextId, received,
     textEnded >>

decodeVars == << body, wire, buffer >>

sessionVars == << sends, abortController, applied >>

postVars == << env, request, response, cancelled >>

storeVars == << threadId, resourceId, requests, resent, twin >>

mapperVars == << event, mapped >>

resultVars == << toolResult >>

(***************************************************************************)
(* Upstream chunks.  A chunk is what processDataStream hands to onChunk:   *)
(* either not an object, or an object with an optional type and an         *)
(* optional payload that may itself hold an inner payload.                 *)
(*   payload = "none"   : no payload field                                 *)
(*   payload = "outer"  : payload without payload.payload                  *)
(*   payload = "nested" : payload with payload.payload                     *)
(***************************************************************************)
Chunk(kind, type, payload) == [kind |-> kind, type |-> type, payload |-> payload]

\* What the upstream sends when the relay runs with the network mapper.
MapperChunks ==
  { Chunk("object", "agent-execution-event-text-end", "nested"),
    Chunk("object", "network-execution-event-step-finish", "outer"),
    Chunk("object", "agent-execution-event-error", "outer"),
    Chunk("object", "agent-execution-event-text-delta", "none") }

\* What the upstream sends when chunks are relayed as they are.
RawChunks ==
  { Chunk("object", "text-end", "outer"),
    Chunk("object", "finish", "outer"),
    Chunk("object", "error", "outer"),
    Chunk("object", NULL, "outer"),
    Chunk("nonobject", NULL, "none") }

UpstreamChunks(mapper) == IF mapper THEN MapperChunks ELSE RawChunks

(***************************************************************************)
(* Event mapper.                                                           *)
(***************************************************************************)
Event(type, src) == [type |-> type, payload |-> [src |-> src]]

\* The mapper's null result.
NoEvent == Event("<null>", "none")

directPayloadEvents ==
  [t \in { "routing-agent-start", "routing-agent-end", "agent-execution-start",
           "agent-execution-end", "network-execution-event-step-finish" } |->
     CASE t = "routing-agent-start" -> "routing-start"
       [] t = "routing-agent-end" -> "routing-end"
       [] t = "agent-execution-start" -> "agent-start"
       [] t = "agent-execution-end" -> "agent-end"
       [] OTHER -> "finish"]

nestedPayloadEvents ==
  [t \in { "agent-execution-event-text-start", "agent-execution-event-text-delta",
           "agent-execution-event-text-end",
           "agent-execution-event-tool-call-input-streaming-start",
           "agent-execution-event-tool-call", "agent-execution-event-tool-result" } |->
     CASE t = "agent-execution-event-text-start" -> "text-start"
       [] t = "agent-execution-event-text-delta" -> "text-delta"
       [] t = "agent-execution-event-text-end" -> "text-end"
       [] t = "agent-execution-event-tool-call-input-streaming-start" ->
            "tool-call-input-streaming-start"
       [] t = "agent-execution-event-tool-call" -> "tool-call"
       [] OTHER -> "tool-result"]

createNestedPayloadEventMutant(type, payload) ==
  IF payload = "nested" THEN Event(type, "inner") ELSE Event(type, "outer")

createNestedPayloadEvent(type, payload) ==
  IF payload = "nested" THEN Event(type, "inner") ELSE NoEvent

mapNetworkEventToClientEvent(chunk) ==
  IF chunk.payload = "none" THEN NoEvent
  ELSE IF chunk.type \in DOMAIN directPayloadEvents
    THEN Event(directPayloadEvents[chunk.type], "outer")
  ELSE IF chunk.type \in DOMAIN nestedPayloadEvents
    THEN createNestedPayloadEvent(nestedPayloadEvents[chunk.type], chunk.payload)
  ELSE IF chunk.type \in { "agent-execution-event-error",
                           "network-execution-event-error" }
    THEN (IF chunk.payload = "nested" THEN Event("error", "inner")
                                      ELSE Event("error", "outer"))
  ELSE NoEvent

(***************************************************************************)
(* onChunk, lines 105-135.                                                 *)
(***************************************************************************)
\* The client event of a chunk: the mapper's result, or the chunk itself.
ClientEventOf(mapper, chunk) ==
  IF chunk.kind # "object" THEN NoEvent
  ELSE IF mapper THEN mapNetworkEventToClientEvent(chunk)
  ELSE Event(chunk.type, "raw")

\* if (eventObj.type): the event carries a type.
HasTypeMutant(ev) == ev # NoEvent /\ ev.type # NULL /\ ev.type # "error"

HasType(ev) == ev # NoEvent /\ ev.type # NULL

\* Error events are logged and not sent while the attempt streams.
SuppressedMutant(ev) == FALSE

Suppressed(ev) == ev.type = "error"

\* An event is enqueued twice.
ForwardedFramesMutant(ev) ==
  IF ev = NoEvent \/ Suppressed(ev) THEN << >> ELSE << ev, ev >>

\* The frames onChunk enqueues for one client event.
ForwardedFrames(ev) ==
  IF ev = NoEvent \/ Suppressed(ev) THEN << >> ELSE << ev >>

\* controller.enqueue succeeds while the response stream is not cancelled; on
\* a cancelled stream it throws a TypeError.
Writable(frames) == frames = << >> \/ ~cancelled

(***************************************************************************)
(* Frames the relay writes itself.                                         *)
(***************************************************************************)
RestreamFrameMutant(last, prev, rc) ==
  [type |-> "restream-needed",
   payload |-> [lastEventType |-> last, previousLastEventType |-> prev,
                retryCount |-> rc - 1]]

RestreamFrame(last, prev, rc) ==
  [type |-> "restream-needed",
   payload |-> [lastEventType |-> last, previousLastEventType |-> prev,
                retryCount |-> rc]]

ErrorFrame(msg) == [type |-> "error", payload |-> [error |-> msg]]

\* data: [DONE]
DoneFrame == [type |-> "[DONE]", payload |-> [src |-> "sentinel"]]

RetriesFailedMessage == "Stream processing failed after retries"

\* Messages of exceptions the upstream client may throw.
UpstreamErrorMessages == { "fetch failed" }

(***************************************************************************)
(* streamAgentResponse, lines 75-175.                                      *)
(***************************************************************************)
\* while (retryCount < maxRetries)
LoopConditionMutant(rc) == rc <= maxRetries

LoopCondition(rc) == rc < maxRetries

\* if (previousLastEventType !== 'text-end')
RestreamNeededMutant(prev, last) == last # "text-end"

RestreamNeeded(prev, last) == prev # "text-end"

\* if (retryCount >= maxRetries && finalPreviousLastEventType === 'error')
FinalErrorDueMutant(rc, finalPrev) == rc >= maxRetries

FinalErrorDueUnguarded(rc, finalPrev) == finalPrev = "error"

FinalErrorDue(rc, finalPrev) == rc >= maxRetries /\ finalPrev = "error"

RelayInit ==
  /\ useNetworkMapper \in BOOLEAN
  /\ rpc = "loop"
  /\ retryCount = 0
  /\ finalPreviousLastEventType = NULL
  /\ previousLastEventType = NULL
  /\ lastEventType = NULL
  /\ relayMessages = << "hello" >>
  /\ out = << >>
  /\ closed = FALSE
  /\ thrown = FALSE
  /\ upstreamCalls = 0
  /\ openCalls = 0
  /\ attemptLog = << >>
  /\ attemptEnds = << >>

\* Loop head: the test of the while, then the two cursor slots are reset and
\* agent.stream is called (the function suspends on the await).
LoopHead ==
  /\ rpc = "loop"
  /\ IF LoopCondition(retryCount)
       THEN /\ rpc' = "call"
            /\ previousLastEventType' = NULL
            /\ lastEventType' = NULL
       ELSE /\ rpc' = "after"
            /\ UNCHANGED << previousLastEventType, lastEventType >>
  /\ UNCHANGED << useNetworkMapper, retryCount, finalPreviousLastEventType,
                  relayMessages, out, closed, thrown, upstreamCalls, openCalls,
                  attemptLog, attemptEnds >>
  /\ UNCHANGED << clientVars, decodeVars, sessionVars,
                  postVars, storeVars, mapperVars, resultVars >>

\* await agent.stream(...) resolves: the upstream stream is open.
OpenUpstream ==
  /\ rpc = "call"
  /\ rpc' = "stream"
  /\ upstreamCalls' = upstreamCalls + 1
  /\ openCalls' = openCalls + 1
  /\ attemptLog' = << >>
  /\ UNCHANGED << useNetworkMapper, retryCount, finalPreviousLastEventType,
                  previousLastEventType, lastEventType, relayMessages, out,
                  closed, thrown, attemptEnds >>
  /\ UNCHANGED << clientVars, decodeVars, sessionVars,
                  postVars, storeVars, mapperVars, resultVars >>

\* onChunk(chunk)
OnChunk(chunk) ==
  /\ rpc = "stream"
  /\ Len(attemptLog) < MaxChunks
  /\ Writable(ForwardedFrames(ClientEventOf(useNetworkMapper, chunk)))
  /\ attemptLog' = Append(attemptLog, chunk)
  /\ LET ev == ClientEventOf(useNetworkMapper, chunk) IN
       /\ IF HasType(ev)
            THEN /\ previousLastEventType' = lastEventType
                 /\ lastEventType' = ev.type
            ELSE UNCHANGED << previousLastEventType, lastEventType >>
       /\ out' = out \o ForwardedFrames(ev)
  /\ UNCHANGED << useNetworkMapper, rpc, retryCount, finalPreviousLastEventType,
                  relayMessages, closed, thrown, upstreamCalls, openCalls,
                  attemptEnds >>
  /\ UNCHANGED << clientVars, decodeVars, sessionVars,
                  postVars, storeVars, mapperVars, resultVars >>

\* The typed events of an attempt, from the chunks the upstream delivered.
RECURSIVE TypedEvents(_, _)
TypedEvents(mapper, log) ==
  IF log = << >> THEN << >>
  ELSE LET ev == ClientEventOf(mapper, Head(log)) IN
         (IF ev # NoEvent /\ ev.type # NULL THEN << ev.type >> ELSE << >>)
           \o TypedEvents(mapper, Tail(log))

\* The last and the second-to-last element of a sequence of types.
LastOf(s) == IF Len(s) >= 1 THEN s[Len(s)] ELSE NULL
SecondToLastOf(s) == IF Len(s) >= 2 THEN s[Len(s) - 1] ELSE NULL

\* processDataStream resolves: the upstream stream has ended; lines 138-159.
StreamEnds ==
  /\ rpc = "stream"
  /\ RestreamNeeded(previousLastEventType, lastEventType) => ~cancelled
  /\ openCalls' = openCalls - 1
  /\ attemptEnds' = Append(attemptEnds,
        [last |-> LastOf(TypedEvents(useNetworkMapper, attemptLog)),
         prev |-> SecondToLastOf(TypedEvents(useNetworkMapper, attemptLog))])
  /\ IF RestreamNeeded(previousLastEventType, lastEventType)
       THEN /\ finalPreviousLastEventType' = previousLastEventType
            /\ retryCount' = retryCount + 1
            /\ out' = Append(out, RestreamFrame(lastEventType,
                                 previousLastEventType, retryCount + 1))
            /\ relayMessages' = Append(relayMessages, "continue")
            /\ rpc' = "loop"
       ELSE /\ rpc' = "after"
            /\ UNCHANGED << finalPreviousLastEventType, retryCount, out,
                            relayMessages >>
  /\ UNCHANGED << useNetworkMapper, previousLastEventType, lastEventType,
                  closed, thrown, upstreamCalls, attemptLog >>
  /\ UNCHANGED << clientVars, decodeVars, sessionVars,
                  postVars, storeVars, mapperVars, resultVars >>

\* After the loop, lines 162-174.
AfterLoop ==
  /\ rpc = "after"
  /\ FinalErrorDue(retryCount, finalPreviousLastEventType) => ~cancelled
  /\ rpc' = "done"
  /\ out' = IF FinalErrorDue(retryCount, finalPreviousLastEventType)
              THEN Append(out, ErrorFrame(RetriesFailedMessage))
              ELSE out
  /\ UNCHANGED << useNetworkMapper, retryCount, finalPreviousLastEventType,
                  previousLastEventType, lastEventType, relayMessages, closed,
                  thrown, upstreamCalls, openCalls, attemptLog, attemptEnds >>
  /\ UNCHANGED << clientVars, decodeVars, sessionVars,
                  postVars, storeVars, mapperVars, resultVars >>

SendDoneMutant ==
  /\ rpc = "done"
  /\ rpc' = "closed"
  /\ out' = Append(out, DoneFrame)
  /\ closed' = FALSE
  /\ UNCHANGED << useNetworkMapper, retryCount, finalPreviousLastEventType,
                  previousLastEventType, lastEventType, relayMessages, thrown,
                  upstreamCalls, openCalls, attemptLog, attemptEnds >>
  /\ UNCHANGED << clientVars, decodeVars, sessionVars,
                  postVars, storeVars, mapperVars, resultVars >>

\* createStreamingResponse.start after the await, lines 197-198.
SendDone ==
  /\ rpc = "done"
  /\ ~cancelled
  /\ rpc' = "closed"
  /\ out' = Append(out, DoneFrame)
  /\ closed' = TRUE
  /\ UNCHANGED << useNetworkMapper, retryCount, finalPreviousLastEventType,
                  previousLastEventType, lastEventType, relayMessages, thrown,
                  upstreamCalls, openCalls, attemptLog, attemptEnds >>
  /\ UNCHANGED << clientVars, decodeVars, sessionVars,
                  postVars, storeVars, mapperVars, resultVars >>

\* The frames the catch block of start() enqueues, lines 199-210.
CatchFrames(msg) == << ErrorFrame(msg) >>

\* agent.stream rejects, or processDataStream rejects: the catch of start().
UpstreamThrows(msg) ==
  /\ rpc \in { "call", "stream" }
  /\ ~cancelled
  /\ rpc' = "closed"
  /\ thrown' = TRUE
  /\ openCalls' = IF rpc = "stream" THEN openCalls - 1 ELSE openCalls
  /\ out' = out \o CatchFrames(msg)
  /\ closed' = TRUE
  /\ UNCHANGED << useNetworkMapper, retryCount, finalPreviousLastEventType,
                  previousLastEventType, lastEventType, relayMessages,
                  upstreamCalls, attemptLog, attemptEnds >>
  /\ UNCHANGED << clientVars, decodeVars, sessionVars,
                  postVars, storeVars, mapperVars, resultVars >>

RelayNext ==
  \/ LoopHead
  \/ OpenUpstream
  \/ \E chunk \in UpstreamChunks(useNetworkMapper) : OnChunk(chunk)
  \/ StreamEnds
  \/ AfterLoop
  \/ SendDone
  \/ \E msg \in UpstreamErrorMessages : UpstreamThrows(msg)

\* The relay before any request.
RelayIdle ==
  /\ RelayInit
  /\ useNetworkMapper = FALSE

(***************************************************************************)
(* Client: chat store, reducer and text batcher (the second store of       *)
(* src/unnamed/part_016, lines 554-1194).                                  *)
(***************************************************************************)
\* Message ids.  NoId is null / undefined, EmptyId is the empty string (falsy
\* but not nullish), generated ids are 1, 2, ..., ids sent by the upstream in
\* toolCallId are negative.
NoId == 0
EmptyId == -1
UpstreamToolCallId == -2

Truthy(id) == id # NoId /\ id # EmptyId
Nullish(id) == id = NoId

\* Text is a sequence of characters; the empty sequence is the empty string.
EmptyText == << >>
Fragments == { << "a" >>, << "b" >>, EmptyText }

\* Messages created during one stream.
MaxMessages == 2
\* Non-empty delta fragments received during one stream.
MaxDeltas == 2

\* Tool results: what hasToolError looks at.
ToolResult(code, message, error, isError, validationErrors) ==
  [kind |-> "object", code |-> code, message |-> message, error |-> error,
   isError |-> isError, validationErrors |-> validationErrors]

ResultOk == ToolResult("absent", "absent", "absent", "absent", "absent")
ResultFailed == ToolResult("absent", "absent", "true", "absent", "absent")

\* The error flag is not looked at.
hasToolErrorMutant(result) ==
  IF result.kind # "object" THEN FALSE
  ELSE \/ result.code = "TOOL_EXECUTION_FAILED"
       \/ result.message = "string with Error"
       \/ result.isError = "true"
       \/ result.validationErrors = "truthy"

hasToolError(result) ==
  IF result.kind # "object" THEN FALSE
  ELSE \/ result.code = "TOOL_EXECUTION_FAILED"
       \/ result.message = "string with Error"
       \/ result.error = "true"
       \/ result.isError = "true"
       \/ result.validationErrors = "truthy"

\* A parsed SSE frame (StreamChunk).
StreamChunk(type, text, toolCallId, result) ==
  [type |-> type, text |-> text, toolCallId |-> toolCallId, result |-> result]

\* Frames of the text and routing lifecycle, and one of a type the reducer
\* does not know.
TextEvents ==
  { StreamChunk("text-start", EmptyText, NoId, ResultOk),
    StreamChunk("text-end", EmptyText, NoId, ResultOk),
    StreamChunk("routing-start", EmptyText, NoId, ResultOk),
    StreamChunk("routing-end", EmptyText, NoId, ResultOk),
    StreamChunk("finish", EmptyText, NoId, ResultOk),
    StreamChunk("restream-needed", EmptyText, NoId, ResultOk) }
  \cup { StreamChunk("text-delta", f, NoId, ResultOk) : f \in Fragments }

\* Frames of the tool-call lifecycle, with and without an explicit toolCallId.
ToolEvents ==
  { StreamChunk("tool-call-input-streaming-start", EmptyText, id, ResultOk) :
      id \in { NoId, UpstreamToolCallId } }
  \cup { StreamChunk("tool-call", EmptyText, id, ResultOk) :
           id \in { NoId, UpstreamToolCallId } }
  \cup { StreamChunk("tool-result", EmptyText, NoId, ResultFailed),
         StreamChunk("tool-result", EmptyText, UpstreamToolCallId, ResultOk) }

\* { ...msg, ...upd }
Merge(msg, upd) ==
  [f \in DOMAIN msg \cup DOMAIN upd |-> IF f \in DOMAIN upd THEN upd[f] ELSE msg[f]]

UserMessage(id, content) == [id |-> id, type |-> "user", content |-> content]

BotMessage(id) ==
  [id |-> id, type |-> "bot", content |-> EmptyText, isStreaming |-> TRUE]

ToolCallMessage(id, name) ==
  [id |-> id, type |-> "tool", name |-> name, status |-> "start"]

RoutingMessage(id, start) ==
  [id |-> id, type |-> "routing", isStreaming |-> TRUE, start |-> start,
   end |-> ""]

\* The client state the handlers read and write: the store's fields, the
\* module-level batcher, and the id generator.
ClientState ==
  [messages |-> messages, isLoading |-> isLoading,
   isMainStreaming |-> isMainStreaming, currentToolName |-> currentToolName,
   debugMode |-> debugMode, updates |-> updates, scheduled |-> scheduled,
   raf |-> raf, nextId |-> nextId]

SetClientState(cs) ==
  /\ messages' = cs.messages
  /\ isLoading' = cs.isLoading
  /\ isMainStreaming' = cs.isMainStreaming
  /\ currentToolName' = cs.currentToolName
  /\ debugMode' = cs.debugMode
  /\ updates' = cs.updates
  /\ scheduled' = cs.scheduled
  /\ raf' = cs.raf
  /\ nextId' = cs.nextId

\* A handler's result: the new client state and the active id it returns.
Result(cs, id) == [cs |-> cs, id |-> id]

\* generateMessageId: a fresh id.
generateMessageId(cs) == cs.nextId + 1

MapMessages(msgs, f(_)) == [i \in 1..Len(msgs) |-> f(msgs[i])]

\* The updated entries are moved to the end of the list.
updateMessageByIdMutant(cs, messageId, upd) ==
  [cs EXCEPT !.messages =
     SelectSeq(cs.messages, LAMBDA msg : msg.id # messageId)
       \o MapMessages(SelectSeq(cs.messages, LAMBDA msg : msg.id = messageId),
                      LAMBDA msg : Merge(msg, upd))]

updateMessageById(cs, messageId, upd) ==
  [cs EXCEPT !.messages =
     MapMessages(cs.messages,
                 LAMBDA msg : IF msg.id = messageId THEN Merge(msg, upd) ELSE msg)]

(***************************************************************************)
(* TextUpdateBatcher, lines 624-665.                                       *)
(***************************************************************************)
NoUpdates == [id \in {} |-> EmptyText]

BatcherAdd(cs, messageId, text) ==
  LET existing == IF messageId \in DOMAIN cs.updates
                    THEN cs.updates[messageId] ELSE EmptyText
  IN [cs EXCEPT !.updates =
        [id \in DOMAIN cs.updates \cup { messageId } |->
           IF id = messageId THEN existing \o text ELSE cs.updates[id]]]

\* The flag is set and no frame callback is requested.
scheduleFlushMutant(cs) == [cs EXCEPT !.scheduled = TRUE]

scheduleFlush(cs) ==
  IF ~cs.scheduled
    THEN [cs EXCEPT !.scheduled = TRUE, !.raf = cs.raf + 1]
    ELSE cs

\* The armed flag is left as it is.
BatcherClearMutant(cs) == [cs EXCEPT !.updates = NoUpdates]

BatcherClear(cs) == [cs EXCEPT !.updates = NoUpdates, !.scheduled = FALSE]

\* msg.content + pendingText
AppendPendingMutant(content, pendingText) == pendingText \o content

AppendPending(content, pendingText) == content \o pendingText

flush(cs) ==
  IF DOMAIN cs.updates = {} THEN cs
  ELSE LET pending == cs.updates
           cleared == BatcherClear(cs)
       IN [cleared EXCEPT !.messages =
             MapMessages(cleared.messages,
               LAMBDA msg :
                 IF /\ msg.id \in DOMAIN pending
                    /\ pending[msg.id] # EmptyText
                    /\ "content" \in DOMAIN msg
                   THEN Merge(msg, [content |->
                                      AppendPending(msg.content, pending[msg.id])])
                   ELSE msg)]

(***************************************************************************)
(* Event handlers, lines 669-860.                                          *)
(***************************************************************************)
handleTextStart(cs) ==
  LET id == generateMessageId(cs) IN
    Result([cs EXCEPT !.messages = Append(cs.messages, BotMessage(id)),
                      !.isMainStreaming = FALSE,
                      !.nextId = id],
           id)

handleTextDelta(cs, streamChunk, cur) ==
  IF streamChunk.text # EmptyText /\ Truthy(cur)
    THEN scheduleFlush(BatcherAdd(cs, cur, streamChunk.text))
    ELSE cs

handleTextEndMutant(cs, cur) ==
  IF Truthy(cur)
    THEN [updateMessageById(cs, cur, [isStreaming |-> FALSE])
            EXCEPT !.isMainStreaming = TRUE]
    ELSE cs

handleTextEnd(cs, cur) ==
  IF Truthy(cur)
    THEN [updateMessageById(flush(cs), cur, [isStreaming |-> FALSE])
            EXCEPT !.isMainStreaming = TRUE]
    ELSE cs

handleToolCallStart(cs, streamChunk) ==
  LET generated == Nullish(streamChunk.toolCallId)
      id == IF generated THEN generateMessageId(cs) ELSE streamChunk.toolCallId
      toolName == "Unknown Tool Name"
  IN Result([cs EXCEPT !.messages = Append(cs.messages, ToolCallMessage(id, toolName)),
                       !.isMainStreaming = ~cs.debugMode,
                       !.currentToolName = IF cs.debugMode THEN NULL ELSE toolName,
                       !.nextId = IF generated THEN id ELSE cs.nextId],
            id)

\* The toolCallId of the payload is ignored.
handleToolCallMutant(cs, streamChunk, cur) ==
  IF Truthy(cur)
    THEN updateMessageById(cs, cur, [args |-> "args", status |-> "toolCalling"])
    ELSE cs

handleToolCall(cs, streamChunk, cur) ==
  LET toolCallId == IF Truthy(streamChunk.toolCallId)
                      THEN streamChunk.toolCallId ELSE cur
  IN IF Truthy(toolCallId)
       THEN updateMessageById(cs, toolCallId,
                              [args |-> "args", status |-> "toolCalling"])
       ELSE cs

\* The active id is cleared after every tool-result.
handleToolResultMutant(cs, streamChunk, cur) ==
  LET resultToolCallId == IF Truthy(streamChunk.toolCallId)
                            THEN streamChunk.toolCallId ELSE cur
      status == IF hasToolError(streamChunk.result) THEN "error" ELSE "complete"
      after == IF Truthy(resultToolCallId)
                 THEN [updateMessageById(cs, resultToolCallId,
                          [result |-> streamChunk.result, status |-> status])
                         EXCEPT !.isMainStreaming = TRUE,
                                !.currentToolName = NULL]
                 ELSE cs
  IN Result(after, NoId)

handleToolResult(cs, streamChunk, cur) ==
  LET resultToolCallId == IF Truthy(streamChunk.toolCallId)
                            THEN streamChunk.toolCallId ELSE cur
      status == IF hasToolError(streamChunk.result) THEN "error" ELSE "complete"
      after == IF Truthy(resultToolCallId)
                 THEN [updateMessageById(cs, resultToolCallId,
                          [result |-> streamChunk.result, status |-> status])
                         EXCEPT !.isMainStreaming = TRUE,
                                !.currentToolName = NULL]
                 ELSE cs
  IN Result(after,
            IF ~Truthy(streamChunk.toolCallId) /\ cur = resultToolCallId
              THEN NoId ELSE cur)

\* The routing message is appended in debug mode only.
handleRoutingStartMutant(cs) ==
  LET id == generateMessageId(cs) IN
    Result([cs EXCEPT !.isMainStreaming = ~cs.debugMode,
                      !.messages = IF cs.debugMode
                                     THEN Append(cs.messages,
                                                 RoutingMessage(id, "Start"))
                                     ELSE cs.messages,
                      !.nextId = id],
           id)

handleRoutingStart(cs) ==
  LET id == generateMessageId(cs) IN
    Result([cs EXCEPT !.isMainStreaming = ~cs.debugMode,
                      !.messages = Append(cs.messages, RoutingMessage(id, "Start")),
                      !.nextId = id],
           id)

handleRoutingEnd(cs, cur) ==
  IF Truthy(cur)
    THEN [updateMessageById(cs, cur,
             [end |-> "Finish", selectionReason |-> NULL, prompt |-> NULL,
              isStreaming |-> FALSE])
            EXCEPT !.isMainStreaming = TRUE]
    ELSE cs

\* text-delta clears the active id.
processStreamChunkMutant(cs, streamChunk, cur) ==
  CASE streamChunk.type = "routing-start" -> handleRoutingStart(cs)
    [] streamChunk.type = "routing-end" -> Result(handleRoutingEnd(cs, cur), NoId)
    [] streamChunk.type = "text-start" -> handleTextStart(cs)
    [] streamChunk.type = "text-delta" ->
         Result(handleTextDelta(cs, streamChunk, cur), NoId)
    [] streamChunk.type = "text-end" -> Result(handleTextEnd(cs, cur), NoId)
    [] streamChunk.type = "tool-call-input-streaming-start" ->
         handleToolCallStart(cs, streamChunk)
    [] streamChunk.type = "tool-call" ->
         Result(handleToolCall(cs, streamChunk, cur), cur)
    [] streamChunk.type = "tool-result" -> handleToolResult(cs, streamChunk, cur)
    [] streamChunk.type = "finish" ->
         Result([cs EXCEPT !.isMainStreaming = FALSE, !.currentToolName = NULL],
                cur)
    [] OTHER -> Result(cs, cur)

\* processStreamChunk, lines 872-918.
processStreamChunk(cs, streamChunk, cur) ==
  CASE streamChunk.type = "routing-start" -> handleRoutingStart(cs)
    [] streamChunk.type = "routing-end" -> Result(handleRoutingEnd(cs, cur), NoId)
    [] streamChunk.type = "text-start" -> handleTextStart(cs)
    [] streamChunk.type = "text-delta" ->
         Result(handleTextDelta(cs, streamChunk, cur), cur)
    [] streamChunk.type = "text-end" -> Result(handleTextEnd(cs, cur), NoId)
    [] streamChunk.type = "tool-call-input-streaming-start" ->
         handleToolCallStart(cs, streamChunk)
    [] streamChunk.type = "tool-call" ->
         Result(handleToolCall(cs, streamChunk, cur), cur)
    [] streamChunk.type = "tool-result" -> handleToolResult(cs, streamChunk, cur)
    [] streamChunk.type = "finish" ->
         Result([cs EXCEPT !.isMainStreaming = FALSE, !.currentToolName = NULL],
                cur)
    [] OTHER -> Result(cs, cur)

(***************************************************************************)
(* processSSEDataLine, lines 945-977.  A data payload is the [DONE]        *)
(* sentinel, the JSON of a stream chunk, or text JSON.parse rejects.       *)
(***************************************************************************)
DoneData == [kind |-> "done"]
JsonData(streamChunk) == [kind |-> "json", chunk |-> streamChunk]
MalformedData == [kind |-> "malformed"]

\* What [DONE] sets.
DoneFlagsMutant(cs) == cs

DoneFlags(cs) == [cs EXCEPT !.isMainStreaming = FALSE, !.currentToolName = NULL]

\* A frame whose JSON has a type but no payload member.
BareChunk(type) == [type |-> type]

\* The handlers that read a member of streamChunk.payload before anything
\* else (lines 696, 722, 749, 770, 806, 836): on a frame without payload they
\* throw a TypeError before any set().
ReadsPayload(type) ==
  type \in { "routing-start", "routing-end", "text-delta",
             "tool-call-input-streaming-start", "tool-call", "tool-result" }

HandlerThrows(streamChunk) ==
  "text" \notin DOMAIN streamChunk /\ ReadsPayload(streamChunk.type)

\* catch (parseError): the frame is skipped, lines 970-976.
SkipFrameMutant(cs, cur) == Result(cs, NoId)

SkipFrame(cs, cur) == Result(cs, cur)

processSSEDataLine(cs, data, cur) ==
  IF data = DoneData THEN Result(DoneFlags(cs), cur)
  ELSE IF data.kind = "json" /\ ~HandlerThrows(data.chunk)
    THEN LET r == processStreamChunk(cs, data.chunk, cur) IN
           IF data.chunk.type = "finish"
             THEN Result([r.cs EXCEPT !.isMainStreaming = FALSE], r.id)
             ELSE r
  ELSE SkipFrame(cs, cur)

(***************************************************************************)
(* One sendMessage, seen at the level of decoded frames.                   *)
(***************************************************************************)
\* The store as created, lines 1095-1102.
ClientInit ==
  /\ messages = << >>
  /\ isLoading = FALSE
  /\ isMainStreaming = FALSE
  /\ currentToolName = NULL
  /\ debugMode \in BOOLEAN
  /\ updates = NoUpdates
  /\ scheduled = FALSE
  /\ raf = 0
  /\ cpc = "idle"
  /\ currentTextMessageId = NoId
  /\ nextId = 0
  /\ received = [id \in {} |-> EmptyText]
  /\ textEnded = {}

\* The client before any send.
ClientIdle ==
  /\ ClientInit
  /\ debugMode = FALSE

\* sendMessage up to the first read of the response, lines 1116-1143 and
\* 1017-1022.
SendMessage(content) ==
  /\ cpc = "idle"
  /\ cpc' = "reading"
  /\ LET id == nextId + 1 IN
       /\ messages' = Append(messages, UserMessage(id, content))
       /\ nextId' = id
  /\ isLoading' = TRUE
  /\ isMainStreaming' = TRUE
  /\ currentTextMessageId' = NoId
  /\ UNCHANGED << currentToolName, debugMode, updates, scheduled, raf,
                  received, textEnded >>
  /\ UNCHANGED << relayVars, decodeVars, sessionVars,
                  postVars, storeVars, mapperVars, resultVars >>

RECURSIVE SumLen(_, _)
SumLen(f, ids) ==
  IF ids = {} THEN 0
  ELSE LET id == CHOOSE x \in ids : TRUE IN Len(f[id]) + SumLen(f, ids \ { id })

\* Characters of delta text received so far.
ReceivedTotal == SumLen(received, DOMAIN received)

\* The bounds on what one stream makes the store grow by.
WithinBounds(streamChunk) ==
  /\ streamChunk.type \in { "text-start", "routing-start",
                            "tool-call-input-streaming-start" } =>
       Len(messages) < 1 + MaxMessages
  /\ (streamChunk.type = "text-delta" /\ streamChunk.text # EmptyText) =>
       ReceivedTotal < MaxDeltas

\* The text that has arrived for the active id.
Receive(streamChunk, cur, next) ==
  LET withNew == [id \in DOMAIN received \cup ({ next } \ { NoId }) |->
                    IF id \in DOMAIN received THEN received[id] ELSE EmptyText]
  IN IF streamChunk.type = "text-delta" /\ cur \in DOMAIN withNew
       THEN [withNew EXCEPT ![cur] = @ \o streamChunk.text]
       ELSE withNew

\* A data line with a frame is decoded and applied.
ReceiveFrame(streamChunk) ==
  /\ cpc = "reading"
  /\ WithinBounds(streamChunk)
  /\ LET r == processSSEDataLine(ClientState, JsonData(streamChunk),
                                 currentTextMessageId)
     IN /\ SetClientState(r.cs)
        /\ currentTextMessageId' = r.id
        /\ received' = Receive(streamChunk, currentTextMessageId, r.id)
  /\ textEnded' = IF streamChunk.type = "text-end" /\ Truthy(currentTextMessageId)
                    THEN textEnded \cup { currentTextMessageId }
                    ELSE textEnded
  /\ UNCHANGED cpc
  /\ UNCHANGED << relayVars, decodeVars, sessionVars,
                  postVars, storeVars, mapperVars, resultVars >>

\* The data line [DONE] is decoded: decoding stops.
ReceiveDone ==
  /\ cpc = "reading"
  /\ LET r == processSSEDataLine(ClientState, DoneData, currentTextMessageId)
     IN /\ SetClientState(r.cs)
        /\ currentTextMessageId' = r.id
  /\ cpc' = "done"
  /\ UNCHANGED << received, textEnded >>
  /\ UNCHANGED << relayVars, decodeVars, sessionVars,
                  postVars, storeVars, mapperVars, resultVars >>

\* The response ends without [DONE].
ResponseEnds ==
  /\ cpc = "reading"
  /\ cpc' = "ended"
  /\ UNCHANGED << messages, isLoading, isMainStreaming, currentToolName,
                  debugMode, updates, scheduled, raf, currentTextMessageId,
                  nextId, received, textEnded >>
  /\ UNCHANGED << relayVars, decodeVars, sessionVars,
                  postVars, storeVars, mapperVars, resultVars >>

\* finally of sendMessage, lines 1157-1164.
SendSettles ==
  /\ cpc \in { "done", "ended" }
  /\ cpc' = "settled"
  /\ isLoading' = FALSE
  /\ isMainStreaming' = FALSE
  /\ UNCHANGED << messages, currentToolName, debugMode, updates, scheduled, raf,
                  currentTextMessageId, nextId, received, textEnded >>
  /\ UNCHANGED << relayVars, decodeVars, sessionVars,
                  postVars, storeVars, mapperVars, resultVars >>

\* A requested animation frame callback runs: () => this.flush(set).
AnimationFrame ==
  /\ raf > 0
  /\ SetClientState(flush([ClientState EXCEPT !.raf = raf - 1]))
  /\ UNCHANGED << cpc, currentTextMessageId, received, textEnded >>
  /\ UNCHANGED << relayVars, decodeVars, sessionVars,
                  postVars, storeVars, mapperVars, resultVars >>

ClientNext ==
  \/ \E content \in { << "h" >> } : SendMessage(content)
  \/ \E streamChunk \in TextEvents : ReceiveFrame(streamChunk)
  \/ ReceiveDone
  \/ ResponseEnds
  \/ SendSettles
  \/ AnimationFrame

(***************************************************************************)
(* Client SSE decoder: processStreamLines and processStreamResponse,       *)
(* lines 979-1059.  The response body is a sequence of characters; the     *)
(* six characters of the prefix "data: " are kept as two halves so that a  *)
(* network chunk can end inside the prefix.                                *)
(***************************************************************************)
NewLine == "\n"
DataPrefix == << "dat", "a: " >>

\* The payloads of the data lines a response is made of.
DonePayload == << "[DONE]" >>
MalformedPayload == << "{" >>
FramePayloads ==
  [p \in { << "s" >>, << "a" >>, << "b" >>, << "e" >>, << "r" >> } |->
     CASE p = << "s" >> -> StreamChunk("text-start", EmptyText, NoId, ResultOk)
       [] p = << "a" >> -> StreamChunk("text-delta", << "a" >>, NoId, ResultOk)
       [] p = << "b" >> -> StreamChunk("text-delta", << "b" >>, NoId, ResultOk)
       [] p = << "e" >> -> StreamChunk("text-end", EmptyText, NoId, ResultOk)
       [] OTHER -> BareChunk("routing-end")]

\* data === '[DONE]', JSON.parse(data), or its SyntaxError.
ParseData(payload) ==
  IF payload = DonePayload THEN DoneData
  ELSE IF payload \in DOMAIN FramePayloads THEN JsonData(FramePayloads[payload])
  ELSE MalformedData

\* Lines of a response body, without their line ends.
WireLines ==
  { DataPrefix \o p : p \in DOMAIN FramePayloads }
  \cup { DataPrefix \o DonePayload, DataPrefix \o MalformedPayload, << >> }

\* Lines in a response body.
MaxLines == 2

RECURSIVE BodiesOf(_)
BodiesOf(n) ==
  IF n = 0 THEN { << >> }
  ELSE LET shorter == BodiesOf(n - 1) IN
         shorter \cup { l \o << NewLine >> \o b : l \in WireLines, b \in shorter }

\* Response bodies: lines ended by a newline, the last one possibly cut short
\* of its newline.
ResponseBodies ==
  BodiesOf(MaxLines)
    \cup { b \o l : b \in BodiesOf(MaxLines - 1), l \in WireLines \ { << >> } }

\* buffer.split('\n')
RECURSIVE Split(_)
Split(text) ==
  IF \A i \in 1..Len(text) : text[i] # NewLine THEN << text >>
  ELSE LET k == CHOOSE i \in 1..Len(text) :
                  text[i] = NewLine /\ \A j \in 1..(i - 1) : text[j] # NewLine
       IN << SubSeq(text, 1, k - 1) >> \o Split(SubSeq(text, k + 1, Len(text)))

\* line.trim() === '' (the bodies hold no white space but the newline).
IsBlank(line) == line = << >>

StartsWithData(line) ==
  Len(line) >= Len(DataPrefix) /\ SubSeq(line, 1, Len(DataPrefix)) = DataPrefix

Slice(line) == SubSeq(line, Len(DataPrefix) + 1, Len(line))

LinesResult(cs, id, shouldBreak) ==
  [cs |-> cs, id |-> id, shouldBreak |-> shouldBreak]

RECURSIVE processStreamLines(_, _, _)
processStreamLines(cs, lines, cur) ==
  IF lines = << >> THEN LinesResult(cs, cur, FALSE)
  ELSE LET line == Head(lines) IN
         IF IsBlank(line) \/ ~StartsWithData(line)
           THEN processStreamLines(cs, Tail(lines), cur)
           ELSE LET data == ParseData(Slice(line))
                    r == processSSEDataLine(cs, data, cur)
                IN IF data = DoneData
                     THEN LinesResult(r.cs, r.id, TRUE)
                     ELSE processStreamLines(r.cs, Tail(lines), r.id)

\* One turn of the read loop with a chunk, lines 1029-1044.
DecodeChunk(cs, buf, chunk, cur) ==
  LET lines == Split(buf \o chunk)
      r == processStreamLines(cs, SubSeq(lines, 1, Len(lines) - 1), cur)
  IN [cs |-> r.cs, id |-> r.id, shouldBreak |-> r.shouldBreak,
      buffer |-> lines[Len(lines)]]

\* After the read loop, lines 1047-1050: what is left in the buffer.
DecodeRest(cs, buf, cur) ==
  IF ~IsBlank(buf) THEN processStreamLines(cs, << buf >>, cur).cs ELSE cs

\* sendMessage up to the first read, as a state: lines 1128-1134.
AfterSend(cs, content) ==
  [cs EXCEPT !.messages = Append(cs.messages,
                                 UserMessage(generateMessageId(cs), content)),
             !.nextId = generateMessageId(cs),
             !.isLoading = TRUE,
             !.isMainStreaming = TRUE]

\* finally of sendMessage as a state change.
SettledMutant(cs) == [cs EXCEPT !.isLoading = FALSE]

Settled(cs) == [cs EXCEPT !.isLoading = FALSE, !.isMainStreaming = FALSE]

\* The store once a body was read in a single chunk, the send has settled and
\* every requested frame callback has run.
DecodedWhole(cs, text) ==
  LET read == IF text = << >>
                THEN [cs |-> cs, id |-> NoId, shouldBreak |-> FALSE,
                      buffer |-> << >>]
                ELSE DecodeChunk(cs, << >>, text, NoId)
      rest == DecodeRest(read.cs, read.buffer, read.id)
  IN [cs |-> [flush(Settled(rest)) EXCEPT !.raf = 0], id |-> read.id]

DecodeInit ==
  /\ ClientInit
  /\ body \in ResponseBodies
  /\ wire = body
  /\ buffer = << >>

\* The decoder before any response.
DecodeIdle ==
  /\ body = << >>
  /\ wire = << >>
  /\ buffer = << >>

\* reader.read() yields the next n characters of the body.
ReadChunk(n) ==
  /\ cpc = "reading"
  /\ n \in 1..Len(wire)
  /\ wire' = SubSeq(wire, n + 1, Len(wire))
  /\ LET r == DecodeChunk(ClientState, buffer, SubSeq(wire, 1, n),
                          currentTextMessageId)
     IN /\ currentTextMessageId' = r.id
        /\ IF r.shouldBreak
             THEN /\ SetClientState(DecodeRest(r.cs, r.buffer, r.id))
                  /\ cpc' = "done"
             ELSE /\ SetClientState(r.cs)
                  /\ cpc' = cpc
        /\ buffer' = r.buffer
  /\ UNCHANGED << body, received, textEnded >>
  /\ UNCHANGED << relayVars, sessionVars,
                  postVars, storeVars, mapperVars, resultVars >>

\* reader.read() yields done: the body has ended.
ReadDone ==
  /\ cpc = "reading"
  /\ wire = << >>
  /\ SetClientState(DecodeRest(ClientState, buffer, currentTextMessageId))
  /\ cpc' = "ended"
  /\ UNCHANGED << body, wire, buffer, currentTextMessageId, received, textEnded >>
  /\ UNCHANGED << relayVars, sessionVars,
                  postVars, storeVars, mapperVars, resultVars >>

DecodeNext ==
  \/ \E content \in { << "h" >> } : SendMessage(content)
  \/ \E n \in 1..Len(body) : ReadChunk(n)
  \/ ReadDone
  \/ SendSettles
  \/ AnimationFrame

(***************************************************************************)
(* The sendMessage calls of one session, lines 1116-1178: every call has   *)
(* its own AbortController and its own run of processStreamResponse; the   *)
(* store and the batcher are shared.                                       *)
(*   pc = "fetching" : awaiting makeChatRequest                            *)
(*   pc = "reading"  : in the read loop, awaiting reader.read()            *)
(*   pc = "closing"  : in the finally of processStreamResponse, awaiting   *)
(*                     reader.cancel()                                     *)
(*   pc = "settled"  : the call's promise has settled                      *)
(***************************************************************************)
\* sendMessage calls in one session.
MaxSends == 2
\* Frames applied to the store in one session.
MaxFrames == 3

NewSend == [pc |-> "fetching", cur |-> NoId, aborted |-> FALSE, outcome |-> "none"]

\* No call yet: abortController: null, line 1102.
SessionInit ==
  /\ sends = << >>
  /\ abortController = 0
  /\ applied = 0

InFlight(s) == sends[s].pc # "settled"

\* if (abortController) abortController.abort(), lines 1120-1122, 1169-1171.
Abort(ss, controller) ==
  IF controller # 0 THEN [ss EXCEPT ![controller].aborted = TRUE] ELSE ss

\* createErrorMessage, lines 929-941.
ErrorMessage(id) ==
  [id |-> id, type |-> "error", content |-> << "Something went wrong" >>]

\* error instanceof Error && error.name === 'AbortError', line 1146.
IsAbortErrorMutant(outcome) == FALSE

IsAbortError(outcome) == outcome = "abort"

\* catch of sendMessage, lines 1144-1156.
Catch(cs, outcome) ==
  IF outcome = "ok" \/ IsAbortError(outcome) THEN cs
  ELSE [cs EXCEPT !.messages = Append(cs.messages,
                                      ErrorMessage(generateMessageId(cs))),
                  !.nextId = generateMessageId(cs),
                  !.isMainStreaming = FALSE]

\* The body makeChatRequest posts, lines 1067-1076.
ChatRequestMutant(content, thread, resource) ==
  [content |-> content, threadId |-> 0, resourceId |-> 0]

ChatRequest(content, thread, resource) ==
  [content |-> content, threadId |-> thread, resourceId |-> resource]

\* sendMessage up to await makeChatRequest, lines 1116-1142; at most `limit`
\* calls are made.
SessionSend(limit, content) ==
  /\ Len(sends) < limit
  /\ SetClientState(AfterSend(ClientState, content))
  /\ sends' = Append(Abort(sends, abortController), NewSend)
  /\ abortController' = Len(sends) + 1
  /\ requests' = Append(requests, ChatRequest(content, threadId, resourceId))
  /\ UNCHANGED << applied, cpc, currentTextMessageId, received, textEnded >>
  /\ UNCHANGED << threadId, resourceId, resent, twin >>
  /\ UNCHANGED << relayVars, decodeVars, postVars, mapperVars, resultVars >>

\* fetch resolves with an ok response that has a body.
FetchResolves(s) ==
  /\ sends[s].pc = "fetching"
  /\ ~sends[s].aborted
  /\ sends' = [sends EXCEPT ![s].pc = "reading"]
  /\ UNCHANGED << abortController, applied, clientVars, relayVars, decodeVars,
                  postVars, storeVars, mapperVars, resultVars >>

\* reader.read() resolves with a data line holding a frame, which is applied.
ReadFrame(s, streamChunk) ==
  /\ sends[s].pc = "reading"
  /\ ~sends[s].aborted
  /\ applied < MaxFrames
  /\ \E r \in { processSSEDataLine(ClientState, JsonData(streamChunk),
                                   sends[s].cur) } :
        /\ SetClientState(r.cs)
        /\ sends' = [sends EXCEPT ![s].cur = r.id]
  /\ applied' = applied + 1
  /\ UNCHANGED << abortController, cpc, currentTextMessageId, received, textEnded >>
  /\ UNCHANGED << relayVars, decodeVars,
                  postVars, storeVars, mapperVars, resultVars >>

\* reader.read() resolves with the data line [DONE]: the loop breaks.
ReadDoneLine(s) ==
  /\ sends[s].pc = "reading"
  /\ ~sends[s].aborted
  /\ SetClientState(processSSEDataLine(ClientState, DoneData, sends[s].cur).cs)
  /\ sends' = [sends EXCEPT ![s].pc = "closing", ![s].outcome = "ok"]
  /\ UNCHANGED << abortController, applied, cpc, currentTextMessageId, received,
                  textEnded >>
  /\ UNCHANGED << relayVars, decodeVars,
                  postVars, storeVars, mapperVars, resultVars >>

\* reader.read() resolves with done, or rejects with a network error; the
\* fetch of a request that is not aborted rejects or answers with !ok.
RequestEnds(s, outcome) ==
  /\ ~sends[s].aborted
  /\ \/ sends[s].pc = "reading"
     \/ sends[s].pc = "fetching" /\ outcome = "error"
  /\ sends' = [sends EXCEPT ![s].pc = "closing", ![s].outcome = outcome]
  /\ UNCHANGED << abortController, applied, clientVars, relayVars, decodeVars,
                  postVars, storeVars, mapperVars, resultVars >>

\* The signal of the call is aborted: the pending fetch or read rejects
\* with an AbortError.
AbortRejects(s) ==
  /\ sends[s].pc \in { "fetching", "reading" }
  /\ sends[s].aborted
  /\ sends' = [sends EXCEPT ![s].pc = "closing", ![s].outcome = "abort"]
  /\ UNCHANGED << abortController, applied, clientVars, relayVars, decodeVars,
                  postVars, storeVars, mapperVars, resultVars >>

\* catch and finally of sendMessage, lines 1144-1164.
Settle(s) ==
  /\ sends[s].pc = "closing"
  /\ SetClientState(Settled(Catch(ClientState, sends[s].outcome)))
  /\ abortController' = 0
  /\ sends' = [sends EXCEPT ![s].pc = "settled"]
  /\ UNCHANGED << applied, cpc, currentTextMessageId, received, textEnded >>
  /\ UNCHANGED << relayVars, decodeVars,
                  postVars, storeVars, mapperVars, resultVars >>

\* stopGeneration, lines 1167-1178.
stopGeneration ==
  /\ sends' = Abort(sends, abortController)
  /\ abortController' = 0
  /\ isLoading' = FALSE
  /\ isMainStreaming' = FALSE
  /\ currentToolName' = NULL
  /\ UNCHANGED << messages, debugMode, updates, scheduled, raf, nextId, applied,
                  cpc, currentTextMessageId, received, textEnded >>
  /\ UNCHANGED << relayVars, decodeVars,
                  postVars, storeVars, mapperVars, resultVars >>

\* A requested animation frame callback runs during a session.
SessionAnimationFrame ==
  /\ raf > 0
  /\ SetClientState(flush([ClientState EXCEPT !.raf = raf - 1]))
  /\ UNCHANGED << cpc, currentTextMessageId, received, textEnded >>
  /\ UNCHANGED << relayVars, decodeVars, sessionVars,
                  postVars, storeVars, mapperVars, resultVars >>

\* The frames of every handler of the reducer.
ReducerEvents ==
  { StreamChunk("text-start", EmptyText, NoId, ResultOk),
    StreamChunk("text-delta", << "a" >>, NoId, ResultOk),
    StreamChunk("text-end", EmptyText, NoId, ResultOk),
    StreamChunk("routing-start", EmptyText, NoId, ResultOk),
    StreamChunk("routing-end", EmptyText, NoId, ResultOk),
    StreamChunk("finish", EmptyText, NoId, ResultOk) }
  \cup ToolEvents

\* The frames of a text answer.
AnswerEvents ==
  { StreamChunk("text-start", EmptyText, NoId, ResultOk),
    StreamChunk("text-delta", << "a" >>, NoId, ResultOk),
    StreamChunk("text-end", EmptyText, NoId, ResultOk) }

\* One sendMessage and every kind of frame.
ReducerNext ==
  \/ \E content \in { << "h" >> } : SessionSend(1, content)
  \/ \E s \in DOMAIN sends : FetchResolves(s)
  \/ \E s \in DOMAIN sends, streamChunk \in ReducerEvents : ReadFrame(s, streamChunk)
  \/ \E s \in DOMAIN sends : ReadDoneLine(s)
  \/ \E s \in DOMAIN sends, outcome \in { "ok", "error" } : RequestEnds(s, outcome)
  \/ \E s \in DOMAIN sends : AbortRejects(s)
  \/ \E s \in DOMAIN sends : Settle(s)
  \/ stopGeneration
  \/ SessionAnimationFrame

\* Overlapping sendMessage calls, each answered with text.
SessionNext ==
  \/ \E content \in { << "h" >> } : SessionSend(MaxSends, content)
  \/ \E s \in DOMAIN sends : FetchResolves(s)
  \/ \E s \in DOMAIN sends, streamChunk \in AnswerEvents : ReadFrame(s, streamChunk)
  \/ \E s \in DOMAIN sends : ReadDoneLine(s)
  \/ \E s \in DOMAIN sends, outcome \in { "ok", "error" } : RequestEnds(s, outcome)
  \/ \E s \in DOMAIN sends : AbortRejects(s)
  \/ \E s \in DOMAIN sends : Settle(s)
  \/ stopGeneration
  \/ SessionAnimationFrame

(***************************************************************************)
(* POST /api/chat, route.ts lines 224-328, with isOriginAllowed of         *)
(* lib/cors.ts and the validators of lib/validation.ts.                    *)
(***************************************************************************)
\* process.env as the handler reads it.
Environments ==
  [NODE_ENV : { "development", "production" }, MAIN_AGENT_NAME : { "agent", "" }]

\* Inbound requests: the Origin header (absent, one of ALLOWED_ORIGINS, or
\* another origin), the Content-Length header (absent, at most
\* MAX_REQUEST_SIZE, or above it) and the body (a chat request, JSON of
\* another shape, or text that is not JSON).
Requests ==
  [origin : { "absent", "listed", "unlisted" },
   contentLength : { "absent", "within", "over" },
   body : { "chat", "badshape", "notjson" }]

isOriginAllowed(req, e) ==
  IF req.origin = "absent" THEN TRUE
  ELSE IF e.NODE_ENV = "development" THEN TRUE
  ELSE req.origin = "listed"

\* An exception: its name, and whether its message holds one of the
\* substrings isNetworkError looks for.
Exception(name, network) == [name |-> name, network |-> network]

NoException == Exception("", FALSE)

\* RequestSizeSchema.parse: an absent header counts as 0.
validateRequestSizeMutant(headers) == NoException

validateRequestSize(headers) ==
  IF headers.contentLength = "over"
    THEN Exception("ZodError", FALSE) ELSE NoException

\* await request.json()
ParseBody(req) ==
  IF req.body = "notjson" THEN Exception("SyntaxError", FALSE) ELSE NoException

\* ChatRequestSchema.parse
validateChatRequest(rawBody) ==
  IF rawBody = "chat" THEN NoException ELSE Exception("ZodError", FALSE)

isNetworkError(error) == error.network \/ error.name = "TypeError"

\* The catch of POST, lines 316-326.
ErrorStatus(error) ==
  IF isNetworkError(error) THEN 503
  ELSE IF error.name = "ZodError" THEN 400
  ELSE 500

\* A response: its status, and whether the handler read the request body.
Response(status, bodyRead) == [status |-> status, bodyRead |-> bodyRead]

NoResponse == Response(0, FALSE)

\* What POST returns; with status 200 the body is the event stream.
POSTResponse(req, e) ==
  IF ~isOriginAllowed(req, e) THEN Response(403, FALSE)
  ELSE IF validateRequestSize(req) # NoException
    THEN Response(ErrorStatus(validateRequestSize(req)), FALSE)
  ELSE IF ParseBody(req) # NoException
    THEN Response(ErrorStatus(ParseBody(req)), TRUE)
  ELSE IF validateChatRequest(req.body) # NoException
    THEN Response(ErrorStatus(validateChatRequest(req.body)), TRUE)
  ELSE IF e.MAIN_AGENT_NAME = ""
    THEN Response(ErrorStatus(Exception("Error", FALSE)), TRUE)
  ELSE Response(200, TRUE)

\* A request arrives: POST has not run yet.  POST hands false for
\* useNetworkMapper (line 314).
PostInit ==
  /\ env \in Environments
  /\ request \in Requests
  /\ response = NoResponse
  /\ cancelled = FALSE
  /\ useNetworkMapper = FALSE
  /\ rpc = "post"
  /\ retryCount = 0
  /\ finalPreviousLastEventType = NULL
  /\ previousLastEventType = NULL
  /\ lastEventType = NULL
  /\ relayMessages = << "hello" >>
  /\ out = << >>
  /\ closed = FALSE
  /\ thrown = FALSE
  /\ upstreamCalls = 0
  /\ openCalls = 0
  /\ attemptLog = << >>
  /\ attemptEnds = << >>

\* POST has answered with the event stream.
PostAccepted ==
  /\ env = [NODE_ENV |-> "production", MAIN_AGENT_NAME |-> "agent"]
  /\ request = [origin |-> "absent", contentLength |-> "within", body |-> "chat"]
  /\ response = Response(200, TRUE)
  /\ cancelled = FALSE

\* POST runs to its return; with status 200 the stream's start() has begun
\* streamAgentResponse.
POST ==
  /\ rpc = "post"
  /\ response' = POSTResponse(request, env)
  /\ rpc' = IF POSTResponse(request, env).status = 200 THEN "loop" ELSE "rejected"
  /\ UNCHANGED << env, request, cancelled >>
  /\ UNCHANGED << useNetworkMapper, retryCount, finalPreviousLastEventType,
                  previousLastEventType, lastEventType, relayMessages, out,
                  closed, thrown, upstreamCalls, openCalls, attemptLog,
                  attemptEnds >>
  /\ UNCHANGED << clientVars, decodeVars, sessionVars, storeVars, mapperVars, resultVars >>

\* What the upstream sends to a request that went through POST.
PostChunks ==
  { Chunk("object", "text-end", "outer"), Chunk("object", "finish", "outer") }

PostNext ==
  \/ POST
  \/ LoopHead
  \/ OpenUpstream
  \/ \E chunk \in PostChunks : OnChunk(chunk)
  \/ StreamEnds
  \/ AfterLoop
  \/ SendDone
  \/ \E msg \in UpstreamErrorMessages : UpstreamThrows(msg)

(***************************************************************************)
(* The client cancels the response while the relay runs.  The underlying   *)
(* source of createStreamingResponse (lines 185-212) has a start() and no  *)
(* cancel(), and agent.stream (line 90) is given no signal.                *)
(***************************************************************************)
\* The response stream is cancelled while start() is suspended on one of its
\* awaits (agent.stream, processDataStream).
ClientCancels ==
  /\ rpc \in { "call", "stream" }
  /\ ~cancelled
  /\ cancelled' = TRUE
  /\ UNCHANGED << env, request, response >>
  /\ UNCHANGED << relayVars, clientVars, decodeVars, sessionVars, storeVars,
                  mapperVars, resultVars >>

\* What becomes of the TypeError that enqueue throws inside onChunk: the
\* upstream client keeps reading, or it passes the exception on to start()
\* and the upstream stream is released, or is left open.
ChunkOutcomes == { "swallowed", "released", "leaked" }

\* onChunk(chunk) with a frame to forward, on a cancelled stream.
ChunkAfterCancel(chunk, outcome) ==
  /\ rpc = "stream"
  /\ cancelled
  /\ Len(attemptLog) < MaxChunks
  /\ ForwardedFrames(ClientEventOf(useNetworkMapper, chunk)) # << >>
  /\ attemptLog' = Append(attemptLog, chunk)
  /\ LET ev == ClientEventOf(useNetworkMapper, chunk) IN
       IF HasType(ev)
         THEN /\ previousLastEventType' = lastEventType
              /\ lastEventType' = ev.type
         ELSE UNCHANGED << previousLastEventType, lastEventType >>
  /\ \/ /\ outcome = "swallowed"
        /\ UNCHANGED << rpc, thrown, openCalls >>
     \/ /\ outcome = "released"
        /\ rpc' = "closed"
        /\ thrown' = TRUE
        /\ openCalls' = openCalls - 1
     \/ /\ outcome = "leaked"
        /\ rpc' = "closed"
        /\ thrown' = TRUE
        /\ UNCHANGED openCalls
  /\ UNCHANGED << useNetworkMapper, retryCount, finalPreviousLastEventType,
                  relayMessages, out, closed, upstreamCalls, attemptEnds >>
  /\ UNCHANGED << clientVars, decodeVars, sessionVars, postVars, storeVars,
                  mapperVars, resultVars >>

\* An enqueue of streamAgentResponse or of start() throws on the cancelled
\* stream, or the upstream rejects: the catch of start() runs, its own enqueue
\* throws, and start() rejects without close().
ThrowsAfterCancel ==
  /\ cancelled
  /\ \/ /\ rpc = "stream"
        /\ RestreamNeeded(previousLastEventType, lastEventType)
        /\ openCalls' = openCalls - 1
        /\ attemptEnds' = Append(attemptEnds,
              [last |-> LastOf(TypedEvents(useNetworkMapper, attemptLog)),
               prev |-> SecondToLastOf(TypedEvents(useNetworkMapper, attemptLog))])
        /\ finalPreviousLastEventType' = previousLastEventType
        /\ retryCount' = retryCount + 1
     \/ /\ rpc = "done"
        /\ UNCHANGED << openCalls, attemptEnds, finalPreviousLastEventType,
                        retryCount >>
     \/ /\ rpc \in { "call", "stream" }
        /\ openCalls' = IF rpc = "stream" THEN openCalls - 1 ELSE openCalls
        /\ UNCHANGED << attemptEnds, finalPreviousLastEventType, retryCount >>
  /\ rpc' = "closed"
  /\ thrown' = TRUE
  /\ UNCHANGED << useNetworkMapper, previousLastEventType, lastEventType,
                  relayMessages, out, closed, upstreamCalls, attemptLog >>
  /\ UNCHANGED << clientVars, decodeVars, sessionVars, postVars, storeVars,
                  mapperVars, resultVars >>

CancelNext ==
  \/ LoopHead
  \/ OpenUpstream
  \/ \E chunk \in UpstreamChunks(useNetworkMapper) : OnChunk(chunk)
  \/ StreamEnds
  \/ AfterLoop
  \/ SendDone
  \/ \E msg \in UpstreamErrorMessages : UpstreamThrows(msg)
  \/ ClientCancels
  \/ \E chunk \in UpstreamChunks(useNetworkMapper), outcome \in ChunkOutcomes :
       ChunkAfterCancel(chunk, outcome)
  \/ ThrowsAfterCancel

(***************************************************************************)
(* The session of the chat store, lines 1095-1190 of src/unnamed/part_016. *)
(***************************************************************************)
\* Calls of initializeSession in one run.
MaxSessions == 2

NoResends == [id \in {} |-> 0]

\* No second run of the store.
NoTwin == [cs |-> NULL, id |-> NoId]

\* The store as created: threadId: '', resourceId: '' (lines 1099-1100).
StoreIdle ==
  /\ threadId = 0
  /\ resourceId = 0
  /\ requests = << >>
  /\ resent = NoResends
  /\ twin = NoTwin

\* initializeSession, lines 1182-1186: generateThreadId() and
\* generateResourceId() return ids not seen before.
initializeSession ==
  /\ threadId < MaxSessions
  /\ threadId' = threadId + 1
  /\ resourceId' = resourceId + 1
  /\ UNCHANGED << requests, resent, twin >>
  /\ UNCHANGED << relayVars, clientVars, decodeVars, sessionVars, postVars,
                  mapperVars, resultVars >>

\* clearMessages, line 1180.
clearMessages ==
  /\ messages' = << >>
  /\ UNCHANGED << isLoading, isMainStreaming, currentToolName, debugMode,
                  updates, scheduled, raf, cpc, currentTextMessageId, nextId,
                  received, textEnded >>
  /\ UNCHANGED << relayVars, decodeVars, sessionVars, postVars, storeVars,
                  mapperVars, resultVars >>

\* toggleDebugMode, line 1188.
toggleDebugMode ==
  /\ debugMode' = ~debugMode
  /\ UNCHANGED << messages, isLoading, isMainStreaming, currentToolName,
                  updates, scheduled, raf, cpc, currentTextMessageId, nextId,
                  received, textEnded >>
  /\ UNCHANGED << relayVars, decodeVars, sessionVars, postVars, storeVars,
                  mapperVars, resultVars >>

\* One frame for every handler of the reducer.
StoreEvents == { streamChunk \in ReducerEvents : streamChunk.toolCallId = NoId }

\* One sendMessage with a frame for every handler, and the other actions of
\* the store.
StoreNext ==
  \/ \E content \in { << "h" >> } : SessionSend(1, content)
  \/ \E s \in DOMAIN sends : FetchResolves(s)
  \/ \E s \in DOMAIN sends, streamChunk \in StoreEvents : ReadFrame(s, streamChunk)
  \/ \E s \in DOMAIN sends : ReadDoneLine(s)
  \/ \E s \in DOMAIN sends, outcome \in { "ok", "error" } : RequestEnds(s, outcome)
  \/ \E s \in DOMAIN sends : AbortRejects(s)
  \/ \E s \in DOMAIN sends : Settle(s)
  \/ stopGeneration
  \/ SessionAnimationFrame
  \/ initializeSession
  \/ clearMessages
  \/ toggleDebugMode

(***************************************************************************)
(* Two runs of the store that differ in debugMode only, fed the same user  *)
(* actions and the same frames.  The first run is the store of the model,  *)
(* the second is kept in twin.                                             *)
(***************************************************************************)
Twin(cs, id) == [cs |-> cs, id |-> id]

\* stopGeneration as a state change, lines 1172-1177.
Stopped(cs) ==
  [cs EXCEPT !.isLoading = FALSE, !.isMainStreaming = FALSE,
             !.currentToolName = NULL]

\* ChatInterface.filteredMessages, chat-message.tsx lines 146-156.
filteredMessages(msgs, debug) ==
  IF debug THEN msgs
  ELSE SelectSeq(msgs, LAMBDA message :
                         \/ message.type = "user"
                         \/ message.type = "bot"
                         \/ message.type = "error")

TwinInit ==
  /\ ClientInit
  /\ twin = Twin([ClientState EXCEPT !.debugMode = ~debugMode], NoId)
  /\ threadId = 0
  /\ resourceId = 0
  /\ requests = << >>
  /\ resent = NoResends

TwinSend(content) ==
  /\ cpc = "idle"
  /\ cpc' = "reading"
  /\ SetClientState(AfterSend(ClientState, content))
  /\ currentTextMessageId' = NoId
  /\ twin' = Twin(AfterSend(twin.cs, content), NoId)
  /\ UNCHANGED << received, textEnded >>
  /\ UNCHANGED << threadId, resourceId, requests, resent >>
  /\ UNCHANGED << relayVars, decodeVars, sessionVars, postVars, mapperVars, resultVars >>

TwinFrame(streamChunk) ==
  /\ cpc = "reading"
  /\ applied < MaxFrames
  /\ applied' = applied + 1
  /\ LET r == processSSEDataLine(ClientState, JsonData(streamChunk),
                                 currentTextMessageId)
         t == processSSEDataLine(twin.cs, JsonData(streamChunk), twin.id)
     IN /\ SetClientState(r.cs)
        /\ currentTextMessageId' = r.id
        /\ twin' = Twin(t.cs, t.id)
  /\ UNCHANGED << cpc, received, textEnded >>
  /\ UNCHANGED << sends, abortController >>
  /\ UNCHANGED << threadId, resourceId, requests, resent >>
  /\ UNCHANGED << relayVars, decodeVars, postVars, mapperVars, resultVars >>

TwinDone ==
  /\ cpc = "reading"
  /\ cpc' = "done"
  /\ LET r == processSSEDataLine(ClientState, DoneData, currentTextMessageId)
         t == processSSEDataLine(twin.cs, DoneData, twin.id)
     IN /\ SetClientState(r.cs)
        /\ currentTextMessageId' = r.id
        /\ twin' = Twin(t.cs, t.id)
  /\ UNCHANGED << received, textEnded >>
  /\ UNCHANGED << threadId, resourceId, requests, resent >>
  /\ UNCHANGED << relayVars, decodeVars, sessionVars, postVars, mapperVars, resultVars >>

\* The request ends (after [DONE], at the end of the body, or with a
\* failure) and sendMessage runs its catch and finally.
TwinSettle(outcome) ==
  /\ \/ cpc = "reading"
     \/ cpc = "done" /\ outcome = "ok"
  /\ cpc' = "settled"
  /\ SetClientState(Settled(Catch(ClientState, outcome)))
  /\ twin' = Twin(Settled(Catch(twin.cs, outcome)), twin.id)
  /\ UNCHANGED << currentTextMessageId, received, textEnded >>
  /\ UNCHANGED << threadId, resourceId, requests, resent >>
  /\ UNCHANGED << relayVars, decodeVars, sessionVars, postVars, mapperVars, resultVars >>

\* stopGeneration while the response is read; the aborted sendMessage then
\* settles.
TwinStop ==
  /\ cpc = "reading"
  /\ cpc' = "settled"
  /\ SetClientState(Settled(Catch(Stopped(ClientState), "abort")))
  /\ twin' = Twin(Settled(Catch(Stopped(twin.cs), "abort")), twin.id)
  /\ UNCHANGED << currentTextMessageId, received, textEnded >>
  /\ UNCHANGED << threadId, resourceId, requests, resent >>
  /\ UNCHANGED << relayVars, decodeVars, sessionVars, postVars, mapperVars, resultVars >>

TwinAnimationFrame ==
  /\ raf > 0
  /\ twin.cs.raf > 0
  /\ SetClientState(flush([ClientState EXCEPT !.raf = raf - 1]))
  /\ twin' = Twin(flush([twin.cs EXCEPT !.raf = twin.cs.raf - 1]), twin.id)
  /\ UNCHANGED << cpc, currentTextMessageId, received, textEnded >>
  /\ UNCHANGED << threadId, resourceId, requests, resent >>
  /\ UNCHANGED << relayVars, decodeVars, sessionVars, postVars, mapperVars, resultVars >>

TwinToggle ==
  /\ debugMode' = ~debugMode
  /\ twin' = Twin([twin.cs EXCEPT !.debugMode = ~twin.cs.debugMode], twin.id)
  /\ UNCHANGED << messages, isLoading, isMainStreaming, currentToolName,
                  updates, scheduled, raf, cpc, currentTextMessageId, nextId,
                  received, textEnded >>
  /\ UNCHANGED << threadId, resourceId, requests, resent >>
  /\ UNCHANGED << relayVars, decodeVars, sessionVars, postVars, mapperVars, resultVars >>

TwinClear ==
  /\ messages' = << >>
  /\ twin' = Twin([twin.cs EXCEPT !.messages = << >>], twin.id)
  /\ UNCHANGED << isLoading, isMainStreaming, currentToolName, debugMode,
                  updates, scheduled, raf, cpc, currentTextMessageId, nextId,
                  received, textEnded >>
  /\ UNCHANGED << threadId, resourceId, requests, resent >>
  /\ UNCHANGED << relayVars, decodeVars, sessionVars, postVars, mapperVars, resultVars >>

TwinNext ==
  \/ \E content \in { << "h" >> } : TwinSend(content)
  \/ \E streamChunk \in ReducerEvents : TwinFrame(streamChunk)
  \/ TwinDone
  \/ \E outcome \in { "ok", "error" } : TwinSettle(outcome)
  \/ TwinStop
  \/ TwinAnimationFrame
  \/ TwinToggle
  \/ TwinClear

(***************************************************************************)
(* Retry of a failed send: ChatMessage of components/error-boundary.tsx,   *)
(* lines 228-251 and 297-308, and the store's resendMessage.               *)
(***************************************************************************)
\* The error message of a failed send that can be retried: it carries the
\* content of the send (types/chat.ts, lines 34-40).
RetryableError(id, content) ==
  [id |-> id, type |-> "error", content |-> << "Something went wrong" >>,
   originalContent |-> content]

IsRetried(message) == "isRetried" \in DOMAIN message /\ message.isRetried

HasOriginalContent(message) ==
  "originalContent" \in DOMAIN message /\ message.originalContent # EmptyText

\* showRetryButton, lines 238-242.
showRetryButtonMutant(message) ==
  message.type = "error" /\ HasOriginalContent(message)

showRetryButton(message) ==
  /\ message.type = "error"
  /\ HasOriginalContent(message)
  /\ ~IsRetried(message)

\* resendMessage(originalContent) as a state change: the error messages that
\* carry this content are marked as retried, then the content is sent again.
resendMessage(cs, originalContent) ==
  AfterSend(
    [cs EXCEPT !.messages =
       MapMessages(cs.messages,
         LAMBDA msg :
           IF /\ msg.type = "error"
              /\ "originalContent" \in DOMAIN msg
              /\ msg.originalContent = originalContent
             THEN Merge(msg, [isRetried |-> TRUE])
             ELSE msg)],
    originalContent)

\* The number of resends an error message has triggered.
ResentCount(counts, id) == IF id \in DOMAIN counts THEN counts[id] ELSE 0

\* The store after a send of "h" has failed.
ResendInit ==
  /\ messages = << UserMessage(1, << "h" >>), RetryableError(2, << "h" >>) >>
  /\ isLoading = FALSE
  /\ isMainStreaming = FALSE
  /\ currentToolName = NULL
  /\ debugMode = FALSE
  /\ updates = NoUpdates
  /\ scheduled = FALSE
  /\ raf = 0
  /\ cpc = "idle"
  /\ currentTextMessageId = NoId
  /\ nextId = 2
  /\ received = [id \in {} |-> EmptyText]
  /\ textEnded = {}
  /\ sends = << [pc |-> "settled", cur |-> NoId, aborted |-> FALSE,
                 outcome |-> "error"] >>
  /\ abortController = 0
  /\ applied = 0
  /\ threadId = 1
  /\ resourceId = 1
  /\ requests = << ChatRequest(<< "h" >>, 1, 1) >>
  /\ resent = NoResends
  /\ twin = NoTwin

\* A click on the retry control of the i-th message: the control is rendered
\* when showRetryButton holds and is disabled while isLoading; handleResend,
\* lines 246-250.
handleResend(i) ==
  /\ showRetryButton(messages[i])
  /\ ~isLoading
  /\ Len(sends) < 1 + MaxSends
  /\ messages[i].type = "error" /\ HasOriginalContent(messages[i])
  /\ SetClientState(resendMessage(ClientState, messages[i].originalContent))
  /\ sends' = Append(Abort(sends, abortController), NewSend)
  /\ abortController' = Len(sends) + 1
  /\ requests' = Append(requests,
                        ChatRequest(messages[i].originalContent, threadId,
                                    resourceId))
  /\ resent' = [id \in DOMAIN resent \cup { messages[i].id } |->
                  ResentCount(resent, id) + (IF id = messages[i].id THEN 1 ELSE 0)]
  /\ UNCHANGED << applied, cpc, currentTextMessageId, received, textEnded >>
  /\ UNCHANGED << threadId, resourceId, twin >>
  /\ UNCHANGED << relayVars, decodeVars, postVars, mapperVars, resultVars >>

ResendNext ==
  \/ \E i \in 1..Len(messages) : handleResend(i)
  \/ \E s \in DOMAIN sends : FetchResolves(s)
  \/ \E s \in DOMAIN sends, streamChunk \in AnswerEvents : ReadFrame(s, streamChunk)
  \/ \E s \in DOMAIN sends : ReadDoneLine(s)
  \/ \E s \in DOMAIN sends, outcome \in { "ok", "error" } : RequestEnds(s, outcome)
  \/ \E s \in DOMAIN sends : AbortRejects(s)
  \/ \E s \in DOMAIN sends : Settle(s)
  \/ stopGeneration
  \/ SessionAnimationFrame

(***************************************************************************)
(* One application of mapNetworkEventToClientEvent.                        *)
(***************************************************************************)
\* Upstream types the mapper has no entry for.
UnlistedTypes ==
  { "text-delta", "finish", "step-finish", "agent-execution-event-step-finish",
    "network-execution-event-finish" }

ErrorTypes == { "agent-execution-event-error", "network-execution-event-error" }

UpstreamTypes ==
  DOMAIN directPayloadEvents \cup DOMAIN nestedPayloadEvents \cup ErrorTypes
    \cup UnlistedTypes

UpstreamEvents ==
  { Chunk("object", type, payload) :
      type \in UpstreamTypes, payload \in { "none", "outer", "nested" } }

\* The mapper has not run yet.
NotMapped == Event("<pending>", "none")

MapperIdle ==
  /\ event = Chunk("object", NULL, "none")
  /\ mapped = NotMapped

MapperInit ==
  /\ event \in UpstreamEvents
  /\ mapped = NotMapped

Map ==
  /\ mapped = NotMapped
  /\ mapped' = mapNetworkEventToClientEvent(event)
  /\ UNCHANGED event
  /\ UNCHANGED << relayVars, clientVars, decodeVars, sessionVars, postVars,
                  storeVars, resultVars >>

MapperNext == Map

(***************************************************************************)
(* One sendMessage fed every frame type of the protocol, with tool calls   *)
(* that carry an explicit toolCallId and tool calls that carry none.       *)
(***************************************************************************)
\* payload.toolCallId: absent, or one of two ids of the upstream.
ToolCallIds == { NoId, UpstreamToolCallId, UpstreamToolCallId - 1 }

ProtocolEvents ==
  TextEvents
  \cup { StreamChunk(type, EmptyText, id, ResultOk) :
           type \in { "tool-call-input-streaming-start", "tool-call" },
           id \in ToolCallIds }
  \cup { StreamChunk("tool-result", EmptyText, id, result) :
           id \in ToolCallIds, result \in { ResultOk, ResultFailed } }

EventsNext ==
  \/ \E content \in { << "h" >> } : SessionSend(1, content)
  \/ \E s \in DOMAIN sends : FetchResolves(s)
  \/ \E s \in DOMAIN sends, streamChunk \in ProtocolEvents : ReadFrame(s, streamChunk)
  \/ \E s \in DOMAIN sends : ReadDoneLine(s)
  \/ \E s \in DOMAIN sends, outcome \in { "ok", "error" } : RequestEnds(s, outcome)
  \/ \E s \in DOMAIN sends : Settle(s)
  \/ SessionAnimationFrame

(***************************************************************************)
(* One tool call from its start to its result, over the shapes of result   *)
(* that hasToolError tells apart.                                          *)
(***************************************************************************)
\* Results that are objects: every member hasToolError reads is absent, has
\* the value it tests for, or has another value.
ResultObjects ==
  { ToolResult(code, message, error, isError, validationErrors) :
      code \in { "absent", "TOOL_EXECUTION_FAILED", "other" },
      message \in { "absent", "string with Error", "string without Error",
                    "not a string" },
      error \in { "absent", "true", "false", "truthy" },
      isError \in { "absent", "true", "false", "truthy" },
      validationErrors \in { "absent", "truthy", "falsy" } }

\* Results that are no objects: null, undefined, a string, a number.
ResultValues ==
  { [kind |-> kind] : kind \in { "null", "undefined", "string", "number" } }

Results == ResultObjects \cup ResultValues

\* No tool call is looked at.
ResultIdle == toolResult = ResultOk

\* The frames of one tool call, with and without an explicit toolCallId; the
\* result is the one the run was started with.
ToolCallEvents ==
  { StreamChunk(type, EmptyText, id, ResultOk) :
      type \in { "tool-call-input-streaming-start", "tool-call" },
      id \in { NoId, UpstreamToolCallId } }
  \cup { StreamChunk("tool-result", EmptyText, id, toolResult) :
           id \in { NoId, UpstreamToolCallId } }

ToolResultNext ==
  \/ \E content \in { << "h" >> } : SessionSend(1, content)
  \/ \E s \in DOMAIN sends : FetchResolves(s)
  \/ \E s \in DOMAIN sends, streamChunk \in ToolCallEvents : ReadFrame(s, streamChunk)
  \/ \E s \in DOMAIN sends : ReadDoneLine(s)
  \/ \E s \in DOMAIN sends : Settle(s)

(***************************************************************************)
(* Specifications.                                                         *)
(***************************************************************************)
vars ==
  << relayVars, clientVars, decodeVars, sessionVars, postVars, storeVars,
     mapperVars, resultVars >>

\* One POST request handled by the relay; no client attached.
InitRelay ==
  /\ RelayInit /\ ClientIdle /\ DecodeIdle /\ SessionInit
  /\ PostAccepted /\ StoreIdle /\ MapperIdle /\ ResultIdle

SpecRelay == InitRelay /\ [][RelayNext]_vars

\* One sendMessage of the store, fed parsed frames.
InitClient ==
  /\ ClientInit /\ RelayIdle /\ DecodeIdle /\ SessionInit
  /\ PostAccepted /\ StoreIdle /\ MapperIdle /\ ResultIdle

SpecClient == InitClient /\ [][ClientNext]_vars

\* One sendMessage of the store, fed the characters of a response body.
InitDecode ==
  /\ DecodeInit /\ RelayIdle /\ SessionInit
  /\ PostAccepted /\ StoreIdle /\ MapperIdle /\ ResultIdle

SpecDecode == InitDecode /\ [][DecodeNext]_vars

\* One sendMessage of the store with every kind of frame, stopGeneration and
\* failures.
InitReducer ==
  /\ ClientInit /\ RelayIdle /\ DecodeIdle /\ SessionInit
  /\ PostAccepted /\ StoreIdle /\ MapperIdle /\ ResultIdle

SpecReducer == InitReducer /\ [][ReducerNext]_vars

\* The same, with every requested animation frame callback run in the end:
\* the browser runs the callbacks of requestAnimationFrame.
SpecReducerFair ==
  InitReducer /\ [][ReducerNext]_vars /\ WF_vars(SessionAnimationFrame)

\* Overlapping sendMessage calls and stopGeneration.
InitSession ==
  /\ ClientIdle /\ RelayIdle /\ DecodeIdle /\ SessionInit
  /\ PostAccepted /\ StoreIdle /\ MapperIdle /\ ResultIdle

SpecSession == InitSession /\ [][SessionNext]_vars

\* One request from its arrival at POST to the end of its response.
InitPost ==
  /\ PostInit /\ ClientIdle /\ DecodeIdle /\ SessionInit
  /\ StoreIdle /\ MapperIdle /\ ResultIdle

SpecPost == InitPost /\ [][PostNext]_vars

\* One request whose response the client may cancel.
InitCancel ==
  /\ RelayInit /\ ClientIdle /\ DecodeIdle /\ SessionInit
  /\ PostAccepted /\ StoreIdle /\ MapperIdle /\ ResultIdle

SpecCancel == InitCancel /\ [][CancelNext]_vars

\* One sendMessage and the session actions of the store.
InitStore ==
  /\ ClientIdle /\ RelayIdle /\ DecodeIdle /\ SessionInit
  /\ PostAccepted /\ StoreIdle /\ MapperIdle /\ ResultIdle

SpecStore == InitStore /\ [][StoreNext]_vars

\* Two runs of the store under the two values of debugMode.
InitDebug ==
  /\ TwinInit /\ RelayIdle /\ DecodeIdle /\ SessionInit
  /\ PostAccepted /\ MapperIdle /\ ResultIdle

SpecDebug == InitDebug /\ [][TwinNext]_vars

\* Resends of a failed send.
InitResend ==
  /\ ResendInit /\ RelayIdle /\ DecodeIdle
  /\ PostAccepted /\ MapperIdle /\ ResultIdle

SpecResend == InitResend /\ [][ResendNext]_vars

\* The event mapper applied to one upstream event.
InitMapper ==
  /\ MapperInit /\ RelayIdle /\ ClientIdle /\ DecodeIdle /\ SessionInit
  /\ ResultIdle
  /\ PostAccepted /\ StoreIdle

SpecMapper == InitMapper /\ [][MapperNext]_vars

\* One sendMessage of the store fed every frame type of the protocol.
InitEvents ==
  /\ ClientInit /\ RelayIdle /\ DecodeIdle /\ SessionInit
  /\ PostAccepted /\ StoreIdle /\ MapperIdle /\ ResultIdle

SpecEvents == InitEvents /\ [][EventsNext]_vars

\* One sendMessage of the store fed one tool call and its result.
InitToolResult ==
  /\ ClientInit /\ RelayIdle /\ DecodeIdle /\ SessionInit
  /\ PostAccepted /\ StoreIdle /\ MapperIdle
  /\ toolResult \in Results

SpecToolResult == InitToolResult /\ [][ToolResultNext]_vars

(***************************************************************************)
(* Properties of the relay.                                                *)
(***************************************************************************)
\* Number of frames of one type in a frame sequence.
CountType(frames, type) ==
  Cardinality({ i \in 1..Len(frames) : frames[i].type = type })

\* The relay ran to its end without an exception.
RelayEndedNormally == rpc = "closed" /\ ~thrown

\* Every upstream call made so far ended with a second-to-last type other than
\* text-end.
NoCleanAttempt ==
  \A i \in 1..Len(attemptEnds) : attemptEnds[i].prev # "text-end"

\* C1 (as stated): when every upstream call ends with a second-to-last recorded
\* event type other than text-end, the response holds exactly maxRetries
\* restream-needed frames, then exactly one error frame, then [DONE], and at
\* most maxRetries upstream calls were made.
C1_RestreamTerminationAsStated ==
  (RelayEndedNormally /\ NoCleanAttempt) =>
    /\ CountType(out, "restream-needed") = maxRetries
    /\ CountType(out, "error") = 1
    /\ Len(out) >= 3
    /\ out[Len(out)] = DoneFrame
    /\ out[Len(out) - 1].type = "error"
    /\ out[Len(out) - 2].type = "restream-needed"
    /\ upstreamCalls <= maxRetries

\* C1 (amended): when every upstream call ends with a second-to-last recorded
\* event type other than text-end, the response holds exactly maxRetries
\* restream-needed frames, then one error frame exactly when the second-to-last
\* recorded type of the last call was error (none otherwise), then [DONE], and
\* exactly maxRetries upstream calls were made.
C1_RestreamTermination ==
  (RelayEndedNormally /\ NoCleanAttempt) =>
    /\ CountType(out, "restream-needed") = maxRetries
    /\ upstreamCalls = maxRetries
    /\ Len(attemptEnds) = maxRetries
    /\ out[Len(out)] = DoneFrame
    /\ IF attemptEnds[maxRetries].prev = "error"
         THEN /\ CountType(out, "error") = 1
              /\ out[Len(out) - 1] = ErrorFrame(RetriesFailedMessage)
              /\ out[Len(out) - 2].type = "restream-needed"
         ELSE /\ CountType(out, "error") = 0
              /\ out[Len(out) - 1].type = "restream-needed"

C1_Witness ==
  /\ RelayEndedNormally
  /\ NoCleanAttempt
  /\ Len(attemptEnds) = maxRetries
  /\ attemptEnds[maxRetries].prev = "error"
  /\ CountType(out, "error") = 1

\* C2: when the first upstream call's stream ends with the events text-end,
\* finish, the relay makes exactly one upstream call and emits no
\* restream-needed frame.
C2_CleanCompletion ==
  (Len(attemptEnds) >= 1 /\ attemptEnds[1].prev = "text-end"
     /\ attemptEnds[1].last = "finish") =>
    /\ upstreamCalls = 1
    /\ Len(attemptEnds) = 1
    /\ CountType(out, "restream-needed") = 0
    /\ rpc \in { "after", "done", "closed" }

C2_Witness ==
  /\ RelayEndedNormally
  /\ attemptEnds = << [last |-> "finish", prev |-> "text-end"] >>
  /\ upstreamCalls = 1

\* C3: on a run that ends without an exception exactly one [DONE] frame is
\* emitted, it is the last frame, the stream is closed with it, and in no state
\* does a frame follow [DONE].
C3_DoneIsLast ==
  /\ CountType(out, "[DONE]") <= 1
  /\ CountType(out, "[DONE]") = 1 => (out[Len(out)] = DoneFrame /\ closed)
  /\ RelayEndedNormally =>
       (closed /\ CountType(out, "[DONE]") = 1 /\ out[Len(out)] = DoneFrame)

C3_Witness ==
  /\ RelayEndedNormally
  /\ Len(out) >= 3
  /\ out[Len(out)] = DoneFrame

\* C4: when an exception is thrown while the relay runs, the response ends
\* with exactly one error frame, then a [DONE] frame, and is then closed.
C4_ExceptionEndsInProtocolForm ==
  thrown =>
    /\ closed
    /\ CountType(out, "error") = 1
    /\ Len(out) >= 2
    /\ out[Len(out)] = DoneFrame
    /\ out[Len(out) - 1].type = "error"

\* C5: while the retry loop runs no frame of type error has been enqueued, and
\* every typed upstream event, error events included, is in the two-slot
\* history.
C5_ErrorsSuppressedDuringRetries ==
  rpc \in { "loop", "call", "stream" } =>
    /\ CountType(out, "error") = 0
    /\ rpc = "stream" =>
         /\ lastEventType = LastOf(TypedEvents(useNetworkMapper, attemptLog))
         /\ previousLastEventType =
              SecondToLastOf(TypedEvents(useNetworkMapper, attemptLog))

C5_Witness ==
  /\ rpc = "stream"
  /\ lastEventType = "error"
  /\ Len(out) >= 1

\* C6 (as stated): after the loop exits with retryCount >= maxRetries one error
\* frame {error: "Stream processing failed after retries"} precedes [DONE]
\* whenever the last event type recorded in the final attempt was error; after
\* a clean completion there is no error frame.
C6_FinalErrorAsStated ==
  RelayEndedNormally =>
    /\ (retryCount >= maxRetries /\ attemptEnds # << >>
          /\ attemptEnds[Len(attemptEnds)].last = "error") =>
         /\ CountType(out, "error") = 1
         /\ out[Len(out) - 1] = ErrorFrame(RetriesFailedMessage)
    /\ (attemptEnds # << >> /\ attemptEnds[Len(attemptEnds)].prev = "text-end") =>
         CountType(out, "error") = 0

\* C6 (amended): after the loop exits with retryCount >= maxRetries one error
\* frame {error: "Stream processing failed after retries"} precedes [DONE]
\* exactly when the second-to-last event type recorded in the final attempt was
\* error; after a clean completion there is no error frame.
C6_FinalError ==
  RelayEndedNormally =>
    /\ (retryCount >= maxRetries /\ attemptEnds # << >>
          /\ attemptEnds[Len(attemptEnds)].prev = "error") =>
         /\ CountType(out, "error") = 1
         /\ out[Len(out) - 1] = ErrorFrame(RetriesFailedMessage)
    /\ (retryCount >= maxRetries /\ attemptEnds # << >>
          /\ attemptEnds[Len(attemptEnds)].prev # "error") =>
         CountType(out, "error") = 0
    /\ (attemptEnds # << >> /\ attemptEnds[Len(attemptEnds)].prev = "text-end") =>
         CountType(out, "error") = 0

C6_Witness ==
  /\ RelayEndedNormally
  /\ retryCount >= maxRetries
  /\ attemptEnds[Len(attemptEnds)] = [last |-> "finish", prev |-> "error"]
  /\ out[Len(out) - 1] = ErrorFrame(RetriesFailedMessage)

\* C7: at most one upstream stream is open at any time; "continue" is appended
\* and the next call is opened only when no upstream stream is open, and a call
\* is opened only while retryCount < maxRetries.
C7_OneUpstreamCallAtATime ==
  /\ [](openCalls <= 1)
  /\ [][ /\ relayMessages' # relayMessages =>
              (openCalls' = 0 /\ relayMessages' = Append(relayMessages, "continue"))
         /\ upstreamCalls' # upstreamCalls =>
              (openCalls = 0 /\ retryCount < maxRetries
                 /\ upstreamCalls' = upstreamCalls + 1) ]_vars

C7_Witness ==
  /\ rpc = "stream"
  /\ upstreamCalls = 2
  /\ openCalls = 1
  /\ relayMessages = << "hello", "continue" >>

(***************************************************************************)
(* Properties of the client reducer and the text batcher.                  *)
(***************************************************************************)
\* The bot messages a text-end event has marked.
EndedBots == { i \in 1..Len(messages) :
                 messages[i].type = "bot" /\ messages[i].id \in textEnded }

\* C8: for a bot message that received text-start, text-delta events and then
\* text-end, whatever animation-frame callbacks ran in between, the content is
\* the concatenation of the delta fragments in arrival order and isStreaming
\* is false; once [DONE] is decoded the main streaming indicator is false.
C8_DeltaOrdering ==
  /\ \A i \in EndedBots :
       /\ messages[i].content = received[messages[i].id]
       /\ messages[i].isStreaming = FALSE
  /\ cpc \in { "done", "settled" } => isMainStreaming = FALSE

C8_Witness ==
  /\ cpc = "done"
  /\ raf = 1
  /\ \E i \in EndedBots : messages[i].content = << "a", "b" >>
  /\ isMainStreaming = FALSE

\* C9: in the step in which text-end marks a bot message non-streaming, the
\* message already holds every delta received for it and the batcher holds
\* nothing more for it; in every later step its content stays as it is.
C9_FlushBeforeTextEnd ==
  [][ \A i \in 1..Len(messages) :
        (messages[i].type = "bot" /\ messages[i].id \in textEnded') =>
          /\ i <= Len(messages')
          /\ messages'[i].isStreaming = FALSE
          /\ messages'[i].content = received'[messages[i].id]
          /\ messages[i].id \notin DOMAIN updates'
          /\ messages[i].id \in textEnded =>
               messages'[i].content = messages[i].content ]_vars

C9_Witness ==
  /\ raf >= 1
  /\ cpc = "reading"
  /\ \E i \in EndedBots : messages[i].content = << "a" >>
  /\ \E i \in 1..Len(messages) :
       /\ messages[i].type = "bot"
       /\ messages[i].isStreaming
       /\ messages[i].id \in DOMAIN updates

(***************************************************************************)
(* Properties of the client decoder.                                       *)
(***************************************************************************)
\* The store and the active id as the user of the store sees them.
DecodedNow ==
  [cs |-> [ClientState EXCEPT !.raf = 0], id |-> currentTextMessageId]

\* The send has settled and no frame callback is left to run.
DecodeQuiet == cpc = "settled" /\ raf = 0

\* C10: however the response body is cut into network chunks, the decoder ends
\* with the message list, the flags and the active id it ends with when the
\* body arrives in a single chunk.
C10_DecodeResilience ==
  DecodeQuiet =>
    DecodedNow = DecodedWhole(AfterSend([ClientState EXCEPT
                                           !.messages = << >>, !.nextId = 0],
                                        << "h" >>),
                              body)

\* A line the decoder applies: not a data line whose payload is skipped.
WellFormed(line) ==
  \/ ~StartsWithData(line)
  \/ LET data == ParseData(Slice(line)) IN
       \/ data = DoneData
       \/ data.kind = "json" /\ ~HandlerThrows(data.chunk)

\* The characters read by a step of the read loop.
ChunkRead == SubSeq(wire, 1, Len(wire) - Len(wire'))

\* C11: a data line whose payload does not parse, or whose frame makes its
\* handler throw, is skipped: each turn of the read loop leaves the store, the
\* active id and the decision to go on exactly as the same lines without the
\* skipped ones would, and so does the processing of the last buffered line.
C11_MalformedSkipped ==
  [][ /\ (cpc = "reading" /\ wire' # wire) =>
          LET lines == Split(buffer \o ChunkRead)
              complete == SubSeq(lines, 1, Len(lines) - 1)
              rest == lines[Len(lines)]
              r == processStreamLines(ClientState, SelectSeq(complete, WellFormed),
                                      currentTextMessageId)
          IN /\ currentTextMessageId' = r.id
             /\ (cpc' = "done") = r.shouldBreak
             /\ (cpc' = "reading") = ~r.shouldBreak
             /\ ClientState' =
                  IF r.shouldBreak
                    THEN DecodeRest(r.cs, IF WellFormed(rest) THEN rest ELSE << >>,
                                    r.id)
                    ELSE r.cs
      /\ (cpc = "reading" /\ cpc' = "ended") =>
          ClientState' =
            DecodeRest(ClientState, IF WellFormed(buffer) THEN buffer ELSE << >>,
                       currentTextMessageId) ]_vars

\* A line that does not parse, then text-start: the bot message was appended
\* and is the only message after the user's.
C11_Witness ==
  /\ body = DataPrefix \o MalformedPayload \o << NewLine >>
              \o DataPrefix \o << "s", NewLine >>
  /\ cpc = "settled"
  /\ Len(messages) = 2
  /\ messages[2].type = "bot"

\* C12: once a [DONE] data line is decoded, no later line of the response is
\* applied to the store: the turn of the read loop that meets [DONE] leaves
\* the store as the lines up to [DONE] made it, and nothing is read afterwards.
C12_DoneTerminatesDecoding ==
  [][ /\ (cpc = "reading" /\ cpc' = "done") =>
          ClientState' =
            DecodeChunk(ClientState, buffer, ChunkRead, currentTextMessageId).cs
      /\ cpc \in { "done", "settled" } => wire' = wire ]_vars

(***************************************************************************)
(* Properties of the message list.                                         *)
(***************************************************************************)
\* The messages that carry isStreaming.
Streamable(msg) == msg.type \in { "bot", "routing" }

\* C13: a bot or routing message is created with isStreaming = TRUE, its
\* isStreaming is never set back to TRUE, and it has gone to FALSE (once) by
\* the time the send that created it has settled, also when the stream ended
\* without text-end or routing-end.
C13_StreamingEndsOnce ==
  /\ [][ \A i \in 1..Len(messages') :
           Streamable(messages'[i]) =>
             IF i <= Len(messages)
               THEN messages'[i].isStreaming => messages[i].isStreaming
               ELSE messages'[i].isStreaming ]_vars
  /\ [](cpc = "settled" =>
          \A i \in 1..Len(messages) :
            Streamable(messages[i]) => ~messages[i].isStreaming)

\* Positions of the bot and routing messages that are streaming.
StreamingNow ==
  { i \in 1..Len(messages) : Streamable(messages[i]) /\ messages[i].isStreaming }

\* C17: while a response is read at most one bot or routing message has
\* isStreaming = TRUE, and its id is the active id of the reducer.
C17_AtMostOneActive ==
  cpc = "reading" =>
    /\ Cardinality(StreamingNow) <= 1
    /\ \A i \in StreamingNow : messages[i].id = currentTextMessageId

\* The order of the statuses of a tool message.
StatusRank(status) ==
  CASE status = "start" -> 0
    [] status = "toolCalling" -> 1
    [] OTHER -> 2

\* C14: the status of a tool message only moves forward along
\* start -> toolCalling -> {complete | error}: no step takes it to an earlier
\* status, and once complete or error it keeps that status.
C14_ToolStatusMonotonic ==
  [][ \A i \in 1..Len(messages) :
        (i <= Len(messages') /\ messages[i].type = "tool"
           /\ messages'[i].type = "tool") =>
          /\ StatusRank(messages'[i].status) >= StatusRank(messages[i].status)
          /\ messages[i].status \in { "complete", "error" } =>
               messages'[i].status = messages[i].status ]_vars

\* C15: no two messages of the list have the same id.
C15_UniqueIds ==
  \A i, j \in 1..Len(messages) : i # j => messages[i].id # messages[j].id

\* C16: every step of the store leaves the ids of the messages it found a
\* prefix of the ids afterwards: messages are appended at the end or replaced
\* in place, none is removed or moved.
C16_AppendOrReplaceInPlace ==
  [][ /\ Len(messages') >= Len(messages)
      /\ \A i \in 1..Len(messages) : messages'[i].id = messages[i].id ]_vars

\* A tool message followed by a bot message, the tool message updated in place
\* after the bot message was appended.
C16_Witness ==
  /\ Len(messages) = 3
  /\ messages[2].type = "tool"
  /\ messages[2].status = "toolCalling"
  /\ messages[3].type = "bot"
  /\ sends # << >>

\* The calls whose request is neither settled nor aborted.
Running == { s \in DOMAIN sends : InFlight(s) /\ ~sends[s].aborted }

\* C18: a sendMessage call triggers the abort signal of every earlier call in
\* flight before its own request is issued, stopGeneration triggers the abort
\* signal of every call in flight, and no frame of an aborted call is applied.
C18_CancelsInFlight ==
  [][ /\ Len(sends') > Len(sends) => \A s \in DOMAIN sends : s \notin Running'
      /\ stopGeneration => Running' = {}
      /\ \A s \in DOMAIN sends :
           (sends[s].aborted /\ sends'[s].cur # sends[s].cur) => FALSE
      /\ applied' # applied =>
           \E s \in DOMAIN sends : ~sends[s].aborted /\ sends[s].pc = "reading" ]_vars

\* C19: the step in which a sendMessage call settles, after completion,
\* cancellation or failure, leaves isLoading and isMainStreaming false.
C19_SettleClearsFlags ==
  [][ (\E s \in DOMAIN sends : InFlight(s) /\ sends'[s].pc = "settled") =>
        (~isLoading' /\ ~isMainStreaming') ]_vars

\* A call aborted by a second one has settled while the second is in flight.
C19_Witness ==
  /\ Len(sends) = 2
  /\ sends[1].pc = "settled"
  /\ sends[1].outcome = "abort"
  /\ sends[2].pc = "reading"
  /\ ~isLoading
  /\ ~isMainStreaming

\* C20: the step in which a call settles whose request ended by an abort
\* appends no message, and neither does stopGeneration.
C20_AbortIsSilent ==
  [][ /\ (\E s \in DOMAIN sends :
            /\ sends[s].pc = "closing"
            /\ sends[s].outcome = "abort"
            /\ sends'[s].pc = "settled") => messages' = messages
      /\ stopGeneration => messages' = messages ]_vars

\* A call stopped by stopGeneration has settled, and the list holds the
\* user's message only.
C20_Witness ==
  /\ Len(sends) = 1
  /\ sends[1].pc = "settled"
  /\ sends[1].outcome = "abort"
  /\ Len(messages) = 1

(***************************************************************************)
(* Properties of failed sends and of the session ids.                      *)
(***************************************************************************)
\* C21: when a send fails for a reason other than cancellation, exactly one
\* message of type error is appended, and its originalContent is the content
\* that was passed to that sendMessage call.
C21_ErrorCarriesOriginalContent ==
  [][ \A s \in DOMAIN sends :
        (sends[s].pc = "closing" /\ sends[s].outcome = "error"
           /\ sends'[s].pc = "settled") =>
          /\ Len(messages') = Len(messages) + 1
          /\ messages'[Len(messages')].type = "error"
          /\ "originalContent" \in DOMAIN messages'[Len(messages')]
          /\ messages'[Len(messages')].originalContent = requests[s].content ]_vars

\* C22: threadId and resourceId change in steps of initializeSession only
\* (sendMessage, stopGeneration, clearMessages, toggleDebugMode, the flushes
\* of the batcher and the reducer events leave them as they are), and every
\* chat request sent carries the threadId and resourceId the store holds when
\* it is sent.
C22_SessionIdsStable ==
  [][ /\ (threadId' # threadId \/ resourceId' # resourceId) => initializeSession
      /\ Len(requests') > Len(requests) =>
           /\ Len(requests') = Len(requests) + 1
           /\ requests'[Len(requests')].threadId = threadId
           /\ requests'[Len(requests')].resourceId = resourceId
           /\ threadId' = threadId
           /\ resourceId' = resourceId ]_vars

\* The session was initialized, a message was sent and frames of its answer
\* were applied, then the session was initialized again.
C22_Witness ==
  /\ Len(requests) = 1
  /\ requests[1].threadId = 1
  /\ requests[1].resourceId = 1
  /\ threadId = 2
  /\ applied >= 1
  /\ Len(messages) >= 2

(***************************************************************************)
(* Properties of the event mapper and of POST.                             *)
(***************************************************************************)
\* The mapping table: upstream type, normalized type.
OuterPayloadTable ==
  { << "routing-agent-start", "routing-start" >>,
    << "routing-agent-end", "routing-end" >>,
    << "agent-execution-start", "agent-start" >>,
    << "agent-execution-end", "agent-end" >>,
    << "network-execution-event-step-finish", "finish" >> }

InnerPayloadTable ==
  { << "agent-execution-event-text-start", "text-start" >>,
    << "agent-execution-event-text-delta", "text-delta" >>,
    << "agent-execution-event-text-end", "text-end" >>,
    << "agent-execution-event-tool-call-input-streaming-start",
       "tool-call-input-streaming-start" >>,
    << "agent-execution-event-tool-call", "tool-call" >>,
    << "agent-execution-event-tool-result", "tool-result" >> }

ErrorTable ==
  { << "agent-execution-event-error", "error" >>,
    << "network-execution-event-error", "error" >> }

OriginRefused == request.origin = "unlisted" /\ env.NODE_ENV = "production"

\* No upstream call was made and no frame was written for the request.
NothingStarted ==
  /\ rpc = "rejected"
  /\ upstreamCalls = 0
  /\ openCalls = 0
  /\ out = << >>
  /\ ~closed

\* C24: POST answers 403 when the origin is not allowed; for an allowed origin
\* it answers 400 when Content-Length is above the maximum, and this without
\* having read the body; for an allowed origin and an accepted size it answers
\* 400 when the body fails schema validation.  In the three cases no upstream
\* call is made and no event stream is started.
C24_RejectedBeforeUpstream ==
  response # NoResponse =>
    /\ OriginRefused =>
         (response.status = 403 /\ ~response.bodyRead /\ NothingStarted)
    /\ (~OriginRefused /\ request.contentLength = "over") =>
         (response.status = 400 /\ ~response.bodyRead /\ NothingStarted)
    /\ (~OriginRefused /\ request.contentLength # "over"
          /\ request.body = "badshape") =>
         (response.status = 400 /\ NothingStarted)

\* A request with an allowed origin, a Content-Length above the maximum and a
\* body that is a chat request was refused with 400.
C24_Witness ==
  /\ request = [origin |-> "listed", contentLength |-> "over", body |-> "chat"]
  /\ response = Response(400, FALSE)
  /\ rpc = "rejected"

\* C25: when the upstream is unreachable at the first upstream call, before
\* any frame was produced, the request is answered with status 503 and not
\* with a 200 event stream that carries an error frame.
C25_UnreachableUpstreamIs503 ==
  (thrown /\ upstreamCalls = 0) => (response.status = 503 /\ out = << >>)

(***************************************************************************)
(* Properties of debugMode.                                                *)
(***************************************************************************)
\* What is displayed in the two runs: all messages with debugMode on, the
\* user, bot and error messages with debugMode off.
DisplayedAsStated ==
  /\ filteredMessages(messages, TRUE) = messages
  /\ filteredMessages(messages, FALSE) =
       SelectSeq(messages, LAMBDA m : m.type \in { "user", "bot", "error" })
  /\ twin.cs.debugMode = ~debugMode

\* C26 (as stated): two runs that differ only in debugMode and see the same
\* user actions and frames hold the same messages, isLoading, isMainStreaming
\* and active id; debugMode only selects the message types displayed.
C26_PureViewFilterAsStated ==
  /\ twin.cs.messages = messages
  /\ twin.cs.isLoading = isLoading
  /\ twin.cs.isMainStreaming = isMainStreaming
  /\ twin.id = currentTextMessageId
  /\ DisplayedAsStated

\* C26 (amended): two runs that differ only in debugMode and see the same user
\* actions and frames hold the same messages, isLoading, active id and pending
\* batcher text; isMainStreaming and currentToolName may differ, because
\* routing-start and tool-call-input-streaming-start set them from debugMode.
\* debugMode selects the message types displayed (user, bot and error when
\* off, all types when on).
C26_PureViewFilter ==
  /\ twin.cs.messages = messages
  /\ twin.cs.isLoading = isLoading
  /\ twin.id = currentTextMessageId
  /\ twin.cs.updates = updates
  /\ DisplayedAsStated

\* A tool call started in both runs: the messages are the same and the main
\* streaming indicator is not.
C26_Witness ==
  /\ cpc = "reading"
  /\ \E i \in 1..Len(messages) : messages[i].type = "tool"
  /\ twin.cs.messages = messages
  /\ twin.cs.isMainStreaming # isMainStreaming
  /\ twin.cs.currentToolName # currentToolName

(***************************************************************************)
(* Properties of the relay under cancellation, and of its retry loop.      *)
(***************************************************************************)
\* C27: once the client has cancelled the response the relay reads nothing
\* more from the open upstream call and opens no further upstream call, and
\* whenever the relay has ended (success, retry exhaustion, exception or
\* cancellation) no upstream stream is left open.
C27_CancelAbortsUpstream ==
  /\ [][ cancelled => (attemptLog' = attemptLog /\ upstreamCalls' = upstreamCalls) ]_vars
  /\ [](rpc = "closed" => openCalls = 0)

\* The restream-needed frames of the response, in order.
RestreamFrames == SelectSeq(out, LAMBDA f : f.type = "restream-needed")

\* k turns "continue".
Continues(k) == [j \in 1..k |-> "continue"]

\* C29 (as stated): the i-th restream-needed frame of a request (i = 0, 1, ...)
\* carries the lastEventType and previousLastEventType of the attempt it
\* follows and retryCount = i; the messages handed to the upstream call that
\* follows it are the original messages followed by i + 1 turns "continue".
C29_RestreamOrderAsStated ==
  /\ \A k \in 1..Len(RestreamFrames) :
       RestreamFrames[k].payload =
         [lastEventType |-> attemptEnds[k].last,
          previousLastEventType |-> attemptEnds[k].prev,
          retryCount |-> k - 1]
  /\ relayMessages = << "hello" >> \o Continues(Len(RestreamFrames))

\* C29 (amended): retryCount is incremented before the frame is built, so the
\* i-th restream-needed frame of a request (i = 0, 1, ...) carries the
\* lastEventType and previousLastEventType of the attempt it follows and
\* retryCount = i + 1; the messages handed to the upstream call that follows
\* it are the original messages followed by i + 1 turns "continue", and the
\* original messages are never changed or removed.
C29_RestreamOrder ==
  /\ Len(RestreamFrames) = retryCount
  /\ \A k \in 1..Len(RestreamFrames) :
       RestreamFrames[k].payload =
         [lastEventType |-> attemptEnds[k].last,
          previousLastEventType |-> attemptEnds[k].prev,
          retryCount |-> k]
  /\ relayMessages = << "hello" >> \o Continues(Len(RestreamFrames))

\* The third upstream call is open: two frames were emitted and the call got
\* the original message and two turns "continue".
C29_Witness ==
  /\ rpc = "stream"
  /\ upstreamCalls = 3
  /\ Len(RestreamFrames) = 2
  /\ RestreamFrames[2].payload.retryCount = 2
  /\ relayMessages = << "hello", "continue", "continue" >>

\* C30: when an upstream call's stream ends, the attempt counts as cleanly
\* completed (the loop is left, no restream-needed frame is emitted, retryCount
\* and the messages stay) exactly when the second-to-last typed event of the
\* chunks of that attempt alone, suppressed error events included, is
\* text-end; otherwise a restream-needed frame is emitted and the loop goes
\* on.  The type of the last event plays no part.
C30_CleanIffPreviousIsTextEnd ==
  [][ (rpc = "stream" /\ Len(attemptEnds') = Len(attemptEnds) + 1) =>
        IF SecondToLastOf(TypedEvents(useNetworkMapper, attemptLog)) = "text-end"
          THEN /\ rpc' = "after"
               /\ out' = out
               /\ retryCount' = retryCount
               /\ relayMessages' = relayMessages
          ELSE /\ rpc' = "loop"
               /\ Len(out') = Len(out) + 1
               /\ out'[Len(out')].type = "restream-needed"
               /\ retryCount' = retryCount + 1 ]_vars

\* The first attempt ended with error, text-end and was restreamed; the second
\* ended with text-end, error and was taken as complete.
C30_Witness ==
  /\ rpc = "after"
  /\ attemptEnds = << [last |-> "text-end", prev |-> "error"],
                      [last |-> "error", prev |-> "text-end"] >>
  /\ Len(RestreamFrames) = 1
  /\ upstreamCalls = 2

C31_ToolResultClearsActiveIdAsStated ==
  [][\A s \in DOMAIN sends, streamChunk \in ProtocolEvents :
       (streamChunk.type = "tool-result" /\ ReadFrame(s, streamChunk)) =>
         sends'[s].cur = NoId]_vars

\* C31 (amended): after a tool-result event that carries no toolCallId the
\* active id is null; after a tool-result event that carries an explicit
\* toolCallId the active id is what it was before the event.
C31_ToolResultActiveId ==
  [][\A s \in DOMAIN sends, streamChunk \in ProtocolEvents :
       (streamChunk.type = "tool-result" /\ ReadFrame(s, streamChunk)) =>
         sends'[s].cur = IF Truthy(streamChunk.toolCallId)
                           THEN sends[s].cur ELSE NoId]_vars

\* A tool-result with an explicit id was applied to the tool message that is
\* the active one, and the active id is still that id.
C31_Witness ==
  \E s \in DOMAIN sends, i \in 1..Len(messages) :
    /\ messages[i].type = "tool"
    /\ messages[i].status \in { "complete", "error" }
    /\ messages[i].id = UpstreamToolCallId
    /\ sends[s].cur = UpstreamToolCallId

\* The message a tool-call or tool-result event is aimed at: the message with
\* the toolCallId of the payload, or without one the message with the active
\* id.
TargetOf(streamChunk, cur) ==
  IF Truthy(streamChunk.toolCallId) THEN streamChunk.toolCallId ELSE cur

\* What the event writes on its target.
WrittenBy(streamChunk, msg) ==
  IF streamChunk.type = "tool-call"
    THEN msg.status = "toolCalling" /\ msg.args = "args"
    ELSE msg.result = streamChunk.result /\ msg.status \in { "complete", "error" }

\* C32: tool-call and tool-result update the message whose id is the
\* toolCallId of the payload when the payload carries one, and the message with
\* the active id only when it carries none; every other message stays as it
\* was, also when tool calls with explicit ids are interleaved, and with
\* neither an explicit id nor an active id the message list is unchanged.
C32_FallbackIdRule ==
  [][\A s \in DOMAIN sends, streamChunk \in ProtocolEvents :
       (/\ streamChunk.type \in { "tool-call", "tool-result" }
        /\ ReadFrame(s, streamChunk)) =>
         LET target == TargetOf(streamChunk, sends[s].cur) IN
           /\ Len(messages') = Len(messages)
           /\ \A i \in 1..Len(messages) :
                IF messages[i].id = target /\ Truthy(target)
                  THEN /\ WrittenBy(streamChunk, messages'[i])
                       /\ messages'[i].id = target
                       /\ messages'[i].type = messages[i].type
                  ELSE messages'[i] = messages[i]
           /\ ~Truthy(target) => messages' = messages]_vars

\* Two tool calls with explicit ids are open and the active id is the second
\* one's; a tool-call event with the id of the first has updated the first and
\* left the second at its start.
C32_Witness ==
  \E s \in DOMAIN sends, i, j \in 1..Len(messages) :
    /\ messages[i].type = "tool" /\ messages[i].id = UpstreamToolCallId
    /\ messages[i].status = "toolCalling"
    /\ messages[j].type = "tool" /\ messages[j].id = UpstreamToolCallId - 1
    /\ messages[j].status = "start"
    /\ sends[s].cur = UpstreamToolCallId - 1

\* The results the heuristic names as failures: an object with the failure
\* code, error = true, isError = true, a truthy validationErrors, or a string
\* message containing "Error".
LooksLikeFailure(result) ==
  /\ result.kind = "object"
  /\ \/ result.code = "TOOL_EXECUTION_FAILED"
     \/ result.error = "true"
     \/ result.isError = "true"
     \/ result.validationErrors = "truthy"
     \/ result.message = "string with Error"

\* C33: tool-result stores the result on its target message and sets the
\* status to error exactly when the result looks like a failure, and to
\* complete for every other result, null and non-objects included.
C33_StatusFromResult ==
  [][\A s \in DOMAIN sends, id \in { NoId, UpstreamToolCallId } :
       ReadFrame(s, StreamChunk("tool-result", EmptyText, id, toolResult)) =>
         \A i \in 1..Len(messages) :
           (messages[i].id = TargetOf(StreamChunk("tool-result", EmptyText, id,
                                                  toolResult),
                                      sends[s].cur)) =>
             /\ messages'[i].result = toolResult
             /\ messages'[i].status =
                  IF LooksLikeFailure(toolResult) THEN "error" ELSE "complete"]_vars

\* A tool message holds the result {error: true} and has status error.
C33_Witness ==
  \E i \in 1..Len(messages) :
    /\ messages[i].type = "tool"
    /\ "result" \in DOMAIN messages[i]
    /\ messages[i].result = ResultFailed
    /\ messages[i].status = "error"

(***************************************************************************)
(* Properties of the text batcher.                                         *)
(***************************************************************************)
\* C34: at any moment at most one flush callback of the batcher is requested
\* on an animation frame and not yet run, whatever the interleaving of
\* text-delta events, synchronous flushes by text-end and frame callbacks.
C34_AtMostOneArmedFlush == raf <= 1

\* The text-end frame.
TextEnd == StreamChunk("text-end", EmptyText, NoId, ResultOk)

\* What a call of flush() leaves behind: nothing pending, the armed flag
\* false, and each pending buffer appended to the content of its message.
Flushed ==
  /\ updates' = NoUpdates
  /\ ~scheduled'
  /\ Len(messages') = Len(messages)
  /\ \A i \in 1..Len(messages) :
       /\ messages'[i].id = messages[i].id
       /\ "content" \in DOMAIN messages[i] =>
            messages'[i].content =
              IF messages[i].id \in DOMAIN updates
                THEN messages[i].content \o updates[messages[i].id]
                ELSE messages[i].content

Pending == DOMAIN updates # {}

\* Pending text of an id only grows until it leaves the batcher, and when it
\* leaves, it is appended to the content of the bot message with that id;
\* the content of a bot message changes in no other way.
PendingGoesToContent ==
  /\ \A id \in DOMAIN updates :
       IF id \in DOMAIN updates'
         THEN /\ Len(updates[id]) <= Len(updates'[id])
              /\ SubSeq(updates'[id], 1, Len(updates[id])) = updates[id]
         ELSE \A i \in 1..Len(messages) :
                (messages[i].id = id /\ messages[i].type = "bot") =>
                  messages'[i].content = messages[i].content \o updates[id]
  /\ \A i \in 1..Len(messages) :
       (messages[i].type = "bot" /\ messages'[i].content # messages[i].content) =>
         /\ messages[i].id \in DOMAIN updates
         /\ messages[i].id \notin DOMAIN updates'

\* C36: every text fragment the batcher accepted for a bot message is appended
\* to that message's content, exactly once, in the end, also when the stream
\* is aborted or ends without a text-end: pending text always has a requested
\* frame callback, it leaves the batcher only into the content, and it does
\* leave.
C36_NoFragmentLost ==
  /\ [](Pending => raf > 0)
  /\ [][PendingGoesToContent]_vars
  /\ (Pending ~> ~Pending)

\* The request was stopped while text was pending for a bot message that is
\* still streaming: no text-end will flush it.
C36_Witness ==
  /\ Pending
  /\ \E s \in DOMAIN sends : sends[s].aborted
  /\ \E i \in 1..Len(messages) :
       /\ messages[i].type = "bot"
       /\ messages[i].id \in DOMAIN updates
       /\ messages[i].isStreaming

\* The restream-needed frame of the relay.
RestreamNeededFrame == StreamChunk("restream-needed", EmptyText, NoId, ResultOk)

\* C37: on a restream-needed frame the reducer appends one message of type
\* restream and changes nothing else: the active id, the flags and every
\* existing message stay as they were.
C37_RestreamMessageAppended ==
  [][\A s \in DOMAIN sends :
       ReadFrame(s, RestreamNeededFrame) =>
         /\ Len(messages') = Len(messages) + 1
         /\ messages'[Len(messages')].type = "restream"
         /\ SubSeq(messages', 1, Len(messages)) = messages
         /\ sends'[s].cur = sends[s].cur
         /\ UNCHANGED << isLoading, isMainStreaming, currentToolName >>]_vars

(***************************************************************************)
(* Properties of overlapping sends.                                        *)
(***************************************************************************)
\* C39: while a send is in flight and has not been cancelled, isLoading is
\* true and the store's abortController is that send's controller; the late
\* completion of an earlier send that was superseded or stopped clears neither.
C39_NewerSendKeepsItsHandle ==
  \A s \in DOMAIN sends :
    (InFlight(s) /\ ~sends[s].aborted) => isLoading /\ abortController = s

\* Frame types whose handler appends a message and returns its id.
StartTypes == { "routing-start", "text-start", "tool-call-input-streaming-start" }

\* Frame types after which the active id is null.
EndTypes == { "routing-end", "text-end" }

\* Frame types the reducer knows and that leave the active id alone, and
\* every type it does not know.
KeepTypes ==
  { streamChunk.type : streamChunk \in ProtocolEvents }
    \ (StartTypes \cup EndTypes \cup { "tool-result" })

\* C40: the active id the reducer returns is the id of the newly appended
\* message for routing-start, text-start and tool-call-input-streaming-start,
\* null for routing-end and text-end, and the previous active id for
\* text-delta, tool-call, finish and every unrecognized type; these four
\* append no message, and a text-delta that arrives while the active id is
\* null changes nothing.
C40_ActiveIdTable ==
  [][\A s \in DOMAIN sends, streamChunk \in ProtocolEvents :
       ReadFrame(s, streamChunk) =>
         /\ streamChunk.type \in StartTypes =>
              /\ Len(messages') = Len(messages) + 1
              /\ SubSeq(messages', 1, Len(messages)) = messages
              /\ sends'[s].cur = messages'[Len(messages')].id
         /\ streamChunk.type \in EndTypes => sends'[s].cur = NoId
         /\ streamChunk.type \in KeepTypes =>
              /\ sends'[s].cur = sends[s].cur
              /\ Len(messages') = Len(messages)
         /\ (streamChunk.type = "text-delta" /\ sends[s].cur = NoId) =>
              /\ messages' = messages
              /\ UNCHANGED << isLoading, isMainStreaming, currentToolName,
                              updates, scheduled, raf >>]_vars

\* A text-delta was taken in for the bot message that text-start appended:
\* the active id is still that message's id and no third message exists.
C40_Witness ==
  \E s \in DOMAIN sends :
    /\ sends[s].cur # NoId
    /\ sends[s].cur \in DOMAIN updates
    /\ Len(messages) = 2
    /\ messages[2].type = "bot"
    /\ messages[2].id = sends[s].cur

(***************************************************************************)
(* Order of the frames of one attempt.                                     *)
(***************************************************************************)
\* The frames in out that follow the last restream-needed frame: what the
\* attempt in progress has enqueued.
AttemptFrames ==
  LET marks == { i \in 1..Len(out) : out[i].type = "restream-needed" }
      start == IF marks = {} THEN 0
               ELSE CHOOSE i \in marks : \A j \in marks : j <= i
  IN SubSeq(out, start + 1, Len(out))

\* The upstream events of a chunk log that give a client event which is not
\* an error event, in the order of arrival.
RECURSIVE Relayed(_, _)
Relayed(mapper, log) ==
  IF log = << >> THEN << >>
  ELSE LET ev == ClientEventOf(mapper, Head(log)) IN
         (IF ev # NoEvent /\ ev.type # "error" THEN << ev >> ELSE << >>)
           \o Relayed(mapper, Tail(log))

\* C38: while an attempt streams, the frames the relay has enqueued for it
\* are exactly the upstream events received so far that map to a non-null,
\* non-error event, each once and in arrival order; the frame of a chunk is
\* in place before the next chunk is processed.
C38_FramesInArrivalOrder ==
  rpc = "stream" => AttemptFrames = Relayed(useNetworkMapper, attemptLog)

\* A later attempt has received two chunks, one of which was not forwarded.
C38_Witness ==
  /\ rpc = "stream"
  /\ retryCount >= 1
  /\ Len(attemptLog) = 2
  /\ Len(AttemptFrames) = 1
  /\ AttemptFrames = Relayed(useNetworkMapper, attemptLog)

====
